---------------------------- MODULE Spec2Model ----------------------------
(***************************************************************************)
(* A model of the scrape -> clean -> extract -> validate pipeline of the   *)
(* repository: ScrapeWorkflow.run (workflows/scrape_workflow.py) with its  *)
(* collaborators WebScraper, HTMLCleaner, ScraperAgent, and the stand-alone*)
(* flow of scrapetest.py (main and the functions it calls).                *)
(*                                                                         *)
(* Strings are sequences of atoms (short strings).  Every literal the code *)
(* tests for (a prefix, a substring, a keyword) is made of whole atoms of  *)
(* the inputs drawn here, except where one atom is a character prefix of   *)
(* another; those pairs are listed in AtomPrefixes.                        *)
(***************************************************************************)
EXTENDS Integers, Sequences, FiniteSets, TLC

VARIABLES
    entry,            \* the entry point of the job: "workflow" or "scrapetest"
    base_url,         \* the URL the job was started with
    homepage_html,    \* the anchors (href values) of the homepage markup
    hash_seed,        \* the iteration order of the interpreter's set of str
    internal_links,   \* the list discover_internal_links returned
    pc,               \* the position of the job in its entry point
    max_pages,        \* the max_pages argument of scrape_company_website
    scraped_pages,    \* the CrawlSet: the dict scraped_pages, in insertion order
    pages_scraped,    \* the counter of scrape_company_website's loop
    link_index,       \* the index of the next link the crawl loop takes
    requests,         \* every outbound request of the job, in order
    calls,            \* the collaborator calls of the job, in order
    prompt,           \* the website content embedded in the extraction prompt
    workflow_result,  \* the dict workflow_result of ScrapeWorkflow.run
    combined_content, \* the aggregate text
    extracted_data,   \* what the extractor returned
    scrape_jobs,      \* the calls of the insert into scrape_jobs
    filtered_emails,  \* what extract_emails_from_html returned
    llm_reply,        \* what the chat-completion call of the job did
    validation,       \* what validate_extraction returned
    hook,             \* the last webhook request received and its answer
    conversations,    \* the rows of the table conversations
    user_data_points  \* the rows of the table user_data_points

jobVars == <<max_pages, scraped_pages, pages_scraped, link_index, requests,
             calls, workflow_result, combined_content, extracted_data,
             scrape_jobs, prompt>>

hookVars == <<hook, conversations, user_data_points>>

vars == <<entry, base_url, homepage_html, hash_seed, internal_links, pc,
          jobVars, filtered_emails, llm_reply, validation, hookVars>>

---------------------------------------------------------------------------
(* Bounds of the model.                                                    *)

\* the number of distinct same-site keyword links a homepage may carry
MaxBulk == 11
\* the number of further anchors (one of SpecialHrefs each) on a homepage
MaxTail == 1
\* the iteration orders of a set of str that are drawn: 0..MaxSeed
MaxSeed == 2
\* the status codes the proxy may answer with: MinStatus..MaxStatus
MinStatus == 100
MaxStatus == 599
\* the number of internal-page fetches that may fail in one job
MaxFailures == 1
\* the number of anchors, and of words of the footer, of the markups drawn
\* for email extraction
MaxWords == 1

---------------------------------------------------------------------------
(* Strings: str.startswith, the `in` test, str.lower, str.strip('/').      *)

\* <<p, t>>: atom p is a proper character prefix of atom t
AtomPrefixes ==
    { <<"http", "https">>, <<"/", "//">>, <<"service", "services">>,
      <<"product", "products">>, <<"solution", "solutions">>,
      <<"offering", "offerings">> }

AtomStartsWith(t, p) == t = p \/ <<p, t>> \in AtomPrefixes

\* s.startswith(lit): the atoms of lit but the last are atoms of s, and the
\* last one is a character prefix of the atom of s at its place
StartsWith(s, lit) ==
    /\ Len(lit) <= Len(s)
    /\ \A i \in 1..(Len(lit) - 1) : s[i] = lit[i]
    /\ Len(lit) > 0 => AtomStartsWith(s[Len(lit)], lit[Len(lit)])

\* lit in s
Contains(s, lit) ==
    \E i \in 0..(Len(s) - Len(lit)) :
        StartsWith(SubSeq(s, i + 1, Len(s)), lit)

LowerAtom(t) ==
    CASE t = "About"   -> "about"
      [] t = "Contact" -> "contact"
      [] t = "NoReply" -> "noreply"
      [] t = "Example" -> "example"
      [] t = "Info"    -> "info"
      [] t = "COM"     -> "com"
      [] t = "Trusted" -> "trusted"
      [] t = "Not available" -> "not available"
      [] t = "Not found"     -> "not found"
      [] t = "NOT FOUND"     -> "not found"
      [] OTHER         -> t

Lower(s) == [i \in 1..Len(s) |-> LowerAtom(s[i])]

RECURSIVE LStripSlash(_)
LStripSlash(s) ==
    IF s # <<>> /\ s[1] \in {"/", "//"} THEN LStripSlash(Tail(s)) ELSE s

RECURSIVE RStripSlash(_)
RStripSlash(s) ==
    IF s # <<>> /\ s[Len(s)] \in {"/", "//"}
    THEN RStripSlash(SubSeq(s, 1, Len(s) - 1)) ELSE s

StripSlash(s) == RStripSlash(LStripSlash(s))

\* the index of the first atom of s that is in stops, Len(s) + 1 if none
RECURSIVE FirstOf(_, _, _)
FirstOf(s, stops, i) ==
    IF i > Len(s) THEN Len(s) + 1
    ELSE IF s[i] \in stops THEN i ELSE FirstOf(s, stops, i + 1)

\* the index of the last atom of s that is in stops, 0 if none
RECURSIVE LastOf(_, _, _)
LastOf(s, stops, i) ==
    IF i < 1 THEN 0
    ELSE IF s[i] \in stops THEN i ELSE LastOf(s, stops, i - 1)

---------------------------------------------------------------------------
(* urllib.parse: urlparse and urljoin, as the two discover functions use   *)
(* them (no params, no dot segments in the inputs drawn).                  *)

SchemeAtoms == {"http", "https", "ftp", "mailto", "tel", "javascript"}

\* urllib.parse.uses_relative and uses_netloc, cut to the schemes above
UsesRelative == {"http", "https", "ftp"}
UsesNetloc == {"http", "https", "ftp"}

\* urlparse(url): the scheme before ":", the netloc after "//" up to the
\* first "/", "?" or "#", then the path, the query after "?", the fragment
\* after "#"
UrlParse(url) ==
    LET hasScheme == Len(url) >= 2 /\ url[1] \in SchemeAtoms /\ url[2] = ":"
        AfterScheme(r1) ==
            LET AfterNetloc(netEnd) ==
                    LET AfterFragment(r2, fragAt) ==
                            LET AfterQuery(r3, qAt) ==
                                    [ scheme   |-> IF hasScheme THEN url[1]
                                                   ELSE "",
                                      netloc   |-> SubSeq(r1, 2, netEnd - 1),
                                      path     |-> SubSeq(r3, 1, qAt - 1),
                                      query    |-> SubSeq(r3, qAt + 1, Len(r3)),
                                      fragment |-> SubSeq(r2, fragAt + 1,
                                                          Len(r2)) ]
                            IN  AfterQuery(SubSeq(r2, 1, fragAt - 1),
                                           FirstOf(SubSeq(r2, 1, fragAt - 1),
                                                   {"?"}, 1))
                    IN  AfterFragment(SubSeq(r1, netEnd, Len(r1)),
                                      FirstOf(SubSeq(r1, netEnd, Len(r1)),
                                              {"#"}, 1))
            IN  AfterNetloc(IF r1 # <<>> /\ r1[1] = "//"
                            THEN FirstOf(r1, {"/", "?", "#"}, 2) ELSE 1)
    IN  AfterScheme(IF hasScheme THEN SubSeq(url, 3, Len(url)) ELSE url)

UrlUnparse(scheme, netloc, path, query, fragment) ==
    (IF scheme # "" THEN <<scheme, ":">> ELSE <<>>)
    \o (IF netloc # <<>> THEN <<"//">> \o netloc ELSE <<>>)
    \o path
    \o (IF query # <<>> THEN <<"?">> \o query ELSE <<>>)
    \o (IF fragment # <<>> THEN <<"#">> \o fragment ELSE <<>>)

\* urljoin(base, url)
UrlJoin(base, url) ==
    LET Join(b, u) ==
            LET Resolve(scheme, bdir) ==
                    IF scheme # b.scheme \/ scheme \notin UsesRelative THEN url
                    ELSE IF scheme \in UsesNetloc /\ u.netloc # <<>>
                    THEN UrlUnparse(scheme, u.netloc, u.path, u.query,
                                    u.fragment)
                    ELSE UrlUnparse(
                             scheme, b.netloc,
                             IF u.path = <<>> THEN b.path
                             ELSE IF u.path[1] = "/" THEN u.path
                             ELSE (IF bdir = <<>> THEN <<"/">> ELSE bdir)
                                  \o u.path,
                             IF u.path = <<>> /\ u.query = <<>>
                             THEN b.query ELSE u.query,
                             u.fragment)
            IN  Resolve(IF u.scheme = "" THEN b.scheme ELSE u.scheme,
                        SubSeq(b.path, 1, LastOf(b.path, {"/"}, Len(b.path))))
    IN  IF url = <<>> THEN base ELSE Join(UrlParse(base), UrlParse(url))

---------------------------------------------------------------------------
(* Link discovery: WebScraper.discover_internal_links and                  *)
(* scrapetest.discover_internal_links.                                     *)

\* priority_patterns of WebScraper.discover_internal_links
PriorityPatternsWS ==
    { <<"about">>, <<"about", "-", "us">>, <<"company">>,
      <<"who", "-", "we", "-", "are">>, <<"our", "-", "story">>,
      <<"our", "-", "team">>, <<"services">>, <<"products">>,
      <<"solutions">>, <<"what", "-", "we", "-", "do">>, <<"offerings">>,
      <<"team">>, <<"leadership">>, <<"management">>, <<"founders">>,
      <<"executives">>, <<"contact">>, <<"contact", "-", "us">>,
      <<"get", "-", "in", "-", "touch">>, <<"careers">>, <<"jobs">>,
      <<"culture">>, <<"values">>, <<"testimonials">>,
      <<"case", "-", "studies">>, <<"clients">>, <<"customers">> }

\* priority_patterns of scrapetest.discover_internal_links
PriorityPatternsST ==
    PriorityPatternsWS \cup
    { <<"partners">>, <<"investors">>, <<"board">>,
      <<"news">>, <<"press">>, <<"media">>, <<"blog">> }

\* the truncation of the result list: list(internal_links)[:10] and [:8]
LinkLimitWS == 10
LinkLimitST == 8

NoLink == [keep |-> FALSE, url |-> <<>>]

\* any(pattern in url_path for pattern in priority_patterns) and the add
KeepIfPriority(patterns, url_path, full_url) ==
    IF \E pattern \in patterns : Contains(url_path, pattern)
    THEN [keep |-> TRUE, url |-> full_url]
    ELSE NoLink

\* the body of the loop of WebScraper.discover_internal_links for one href
ResolveLinkWS(href, base) ==
    LET absolute == \/ StartsWith(href, <<"http", ":", "//">>)
                    \/ StartsWith(href, <<"https", ":", "//">>)
        Resolved(full_url) ==
            KeepIfPriority(PriorityPatternsWS,
                           StripSlash(Lower(UrlParse(full_url).path)),
                           full_url)
    IN  IF \/ href = <<>>
           \/ StartsWith(href, <<"mailto", ":">>)
           \/ StartsWith(href, <<"tel", ":">>)
           \/ StartsWith(href, <<"javascript", ":">>)
           \/ StartsWith(href, <<"#">>)
        THEN NoLink
        ELSE IF StartsWith(href, <<"/">>) THEN Resolved(UrlJoin(base, href))
        ELSE IF absolute
        THEN IF UrlParse(href).netloc # UrlParse(base).netloc THEN NoLink
             ELSE Resolved(href)
        ELSE Resolved(UrlJoin(base, href))

\* the body of the loop of scrapetest.discover_internal_links for one href
ResolveLinkST(href, base) ==
    LET Resolved(full_url) ==
            KeepIfPriority(PriorityPatternsST,
                           Lower(UrlParse(full_url).path), full_url)
    IN  IF \/ href = <<>>
           \/ StartsWith(href, <<"#">>)
           \/ StartsWith(href, <<"mailto", ":">>)
           \/ StartsWith(href, <<"tel", ":">>)
        THEN NoLink
        ELSE IF StartsWith(href, <<"/">>) THEN Resolved(UrlJoin(base, href))
        ELSE IF ~StartsWith(href, <<"http">>)
        THEN Resolved(UrlJoin(base, href))
        ELSE IF ~Contains(href, base) THEN NoLink
        ELSE Resolved(href)

ResolveLink(e, href, base) ==
    IF e = "workflow" THEN ResolveLinkWS(href, base)
    ELSE ResolveLinkST(href, base)

Range(s) == {s[i] : i \in 1..Len(s)}

\* a list in place of the set: internal_links.append(full_url)
RECURSIVE LinkSetAsList(_, _, _, _)
LinkSetAsList(e, anchors, base, acc) ==
    LET Add(r) == IF r.keep THEN Append(acc, r.url) ELSE acc
    IN  IF anchors = <<>> THEN acc
        ELSE LinkSetAsList(e, Tail(anchors), base,
                           Add(ResolveLink(e, Head(anchors), base)))

\* internal_links.add(full_url) over the anchors in document order: the
\* members of the set, listed by first insertion
RECURSIVE LinkSet(_, _, _, _)
LinkSet(e, anchors, base, acc) ==
    LET Add(r) == IF r.keep /\ r.url \notin Range(acc)
                  THEN Append(acc, r.url) ELSE acc
    IN  IF anchors = <<>> THEN acc
        ELSE LinkSet(e, Tail(anchors), base,
                     Add(ResolveLink(e, Head(anchors), base)))

Reverse(s) == [i \in 1..Len(s) |-> s[Len(s) + 1 - i]]

Rotate(s, k) ==
    IF s = <<>> THEN s
    ELSE [i \in 1..Len(s) |-> s[((i - 1 + k) % Len(s)) + 1]]

\* list(a_set): a set of str iterates in an order fixed by the interpreter's
\* string hashing, not by insertion.  The orders drawn: seed 0 is the order
\* of insertion, an odd seed reverses, seed \div 2 rotates.
SetToList(members, seed) ==
    Rotate(IF seed % 2 = 1 THEN Reverse(members) ELSE members, seed \div 2)

Take(s, n) == SubSeq(s, 1, IF Len(s) < n THEN Len(s) ELSE n)

LinkLimit(e) == IF e = "workflow" THEN LinkLimitWS ELSE LinkLimitST

\* discover_internal_links(html, base_url) of entry point e; html.anchors is
\* soup.find_all('a', href=True), the href values in document order
DiscoverInternalLinks(e, html, base, seed) ==
    Take(SetToList(LinkSet(e, html.anchors, base, <<>>), seed), LinkLimit(e))

---------------------------------------------------------------------------
(* Markup.  A page's markup is a record:                                   *)
(*   anchors       the href values of its <a href> elements, in order      *)
(*   contact_text  the words of the text inside contact-like containers    *)
(*                 and table cells (footer, [class*="contact"], td, ...)   *)
(*   body_text     the words of the rest of the visible text               *)
(*   filler        the number of further characters of visible text, one   *)
(*                 line with no white space and no email in it             *)
(* A word is a string (a sequence of atoms) with no white space.           *)

Html(anchors, contact_text, body_text, filler) ==
    [ anchors |-> anchors, contact_text |-> contact_text,
      body_text |-> body_text, filler |-> filler ]

\* Python's None and a present value
None == <<>>
Some(x) == <<x>>

---------------------------------------------------------------------------
(* The inputs drawn: the URL a job is started with and homepage markups.   *)

Entries == {"workflow", "scrapetest"}

BaseHome == <<"https", ":", "//", "acme", ".", "com">>
\* a start URL that is a page of the site, not its root
BaseAbout == BaseHome \o <<"/", "about">>
BaseUrls == {BaseHome, BaseAbout}

\* one-atom path keywords, all in both priority_patterns lists
BulkKeywords ==
    << "about", "services", "products", "team", "leadership", "contact",
       "careers", "jobs", "culture", "values", "testimonials", "clients",
       "customers", "company", "solutions", "management" >>

\* n anchors href="/<keyword>", all different
Bulk(n) == [i \in 1..n |-> <<"/", BulkKeywords[i]>>]

EvilHost == <<"evil", ".", "com">>

SpecialHrefs ==
    { <<>>,                                                 \* href=""
      <<"#", "top">>,
      <<"mailto", ":", "info", "@", "acme", ".", "com">>,
      <<"tel", ":", "555">>,
      <<"javascript", ":", "about">>,
      <<"/", "pricing">>,                                   \* no keyword
      <<"contact">>,                                        \* path-relative
      <<"/", "about", "-", "us">>,
      <<"//">> \o EvilHost \o <<"/", "about">>,             \* protocol-relative
      <<"https", ":", "//">> \o EvilHost \o <<"/", "about">>,
      <<"ftp", ":", "//">> \o EvilHost \o <<"/", "about">>,
      BaseHome \o <<".">> \o EvilHost \o <<"/", "about">>,  \* acme.com.evil.com
      BaseHome \o <<"/", "About">>,                         \* absolute, same host
      <<"http", ":", "//", "acme", ".", "com", "/", "team">> }

SeqsUpTo(S, n) == UNION {[1..k -> S] : k \in 0..n}

\* the characters of visible text of the homepages drawn
HomepageFiller == 5000

Homepages ==
    { Html(tail \o Bulk(n), <<>>, <<>>, HomepageFiller) :
          tail \in SeqsUpTo(SpecialHrefs, MaxTail), n \in 0..MaxBulk }

---------------------------------------------------------------------------
(* Text.  A text is a sequence of pieces [s, chars]: the first `chars`     *)
(* characters of the string s repeated without end.  A word w is the piece *)
(* [s |-> w, chars |-> StrChars(w)]; n characters of filler are the piece  *)
(* [s |-> <<"x">>, chars |-> n].                                           *)

\* len() of an atom, for the atoms of the words drawn
AtomChars(a) ==
    CASE a \in {"@", ".", "-", "x", " ", "?", "=", ":"} -> 1
      [] a \in {"hi", "us", "no"} -> 2
      [] a \in {"com", "org", "the"} -> 3
      [] a \in {"info", "Info", "acme", "test", "team", "jane"} -> 4
      [] a \in {"sales", "hello", "reply", "admin"} -> 5
      [] a \in {"mailto"} -> 6
      [] a \in {"support", "noreply", "NoReply", "example", "Example",
                "subject", "contact"} -> 7
      [] a \in {"12", "by", "IL"} -> 2
      [] a \in {"555", "010"} -> 3
      [] a \in {"0199", "Main", "Blvd"} -> 4
      [] a \in {"62704"} -> 5
      [] a \in {"Globex"} -> 6
      [] a \in {"Trusted", "company"} -> 7
      [] a \in {"linkedin"} -> 8
      [] a \in {"Springfield"} -> 11
      [] a \in {"//"} -> 2
      [] a \in {"jobs", "TEAM", "conv"} -> 4
      [] a \in {"https", "about", "ABOUT", "OTHER"} -> 5
      [] a \in {"values", "domain"} -> 6
      [] a \in {"careers", "culture", "clients", "CONTACT"} -> 7
      [] a \in {"services", "products", "HOMEPAGE", "SERVICES",
                "yoursite"} -> 8
      [] a \in {"customers", "solutions"} -> 9
      [] a \in {"leadership", "management"} -> 10
      [] a \in {"testimonials"} -> 12
      [] a \in {"our"} -> 3
      [] a \in {"town", "city", "road"} -> 4
      [] a \in {"street", "avenue", "office"} -> 6
      [] a \in {"country", "address"} -> 7
      [] a \in {"lorem95"} -> 95
      [] a \in {"CONTACT_SECTION:"} -> 16
      [] OTHER -> 1

RECURSIVE StrChars(_)
StrChars(w) == IF w = <<>> THEN 0 ELSE AtomChars(Head(w)) + StrChars(Tail(w))

Word(w) == [s |-> w, chars |-> StrChars(w)]
Filler(n) == [s |-> <<"x">>, chars |-> n]
Space == [s |-> <<" ">>, chars |-> 1]

\* len(text)
RECURSIVE Chars(_)
Chars(text) == IF text = <<>> THEN 0 ELSE Head(text).chars + Chars(Tail(text))

\* text[:k]
RECURSIVE TakeChars(_, _)
TakeChars(text, k) ==
    IF text = <<>> \/ k <= 0 THEN <<>>
    ELSE IF Head(text).chars <= k
    THEN <<Head(text)>> \o TakeChars(Tail(text), k - Head(text).chars)
    ELSE <<[s |-> Head(text).s, chars |-> k]>>

\* ' '.join(lines), each line a piece
RECURSIVE JoinSpace(_)
JoinSpace(lines) ==
    IF lines = <<>> THEN <<>>
    ELSE IF Len(lines) = 1 THEN lines
    ELSE <<Head(lines), Space>> \o JoinSpace(Tail(lines))

---------------------------------------------------------------------------
(* ContentCleaner: scrapetest's extract_emails_from_html and               *)
(* clean_html_content, and HTMLCleaner.clean_single_page.  The footer of a *)
(* page is its one contact-like container; every word of body_text and of  *)
(* contact_text is the text of an element of its own.                      *)

\* re.findall of the email pattern over a word: the word, when it has the
\* shape local@domain.tld
EmailShaped(w) ==
    /\ Len(w) >= 5
    /\ w[Len(w) - 1] = "."
    /\ \E at \in 2..(Len(w) - 3) :
           /\ w[at] = "@"
           /\ \A j \in 1..Len(w) : j # at => w[j] \notin {"@", " ", "?", ":", "="}

EmailsIn(words) == {Lower(words[i]) : i \in {j \in 1..Len(words) : EmailShaped(words[j])}}

\* mailto['href'].replace('mailto:', '').split('?')[0]
MailtoAddress(href) ==
    LET rest == SubSeq(href, 3, Len(href))
    IN  SubSeq(rest, 1, FirstOf(rest, {"?"}, 1) - 1)

\* exclude_patterns of extract_emails_from_html
ExcludePatterns ==
    { <<"example", ".", "com">>, <<"test", ".", "com">>,
      <<"domain", ".", "com">>, <<"yoursite", ".", "com">>,
      <<"noreply">>, <<"no", "-", "reply">>, <<"donotreply">>,
      <<"support", "@", "example">>, <<"admin", "@", "example">>,
      <<"info", "@", "example">>, <<"contact", "@", "example">> }

EmailsAsFoundIn(words) ==
    {words[i] : i \in {j \in 1..Len(words) : EmailShaped(words[j])}}

\* the three layers without email.lower()
CollectedEmailsAsFound(html) ==
    LET mailtos == {i \in 1..Len(html.anchors) :
                       /\ StartsWith(html.anchors[i], <<"mailto", ":">>)
                       /\ MailtoAddress(html.anchors[i]) # <<>>}
    IN  {MailtoAddress(html.anchors[i]) : i \in mailtos}
        \cup EmailsAsFoundIn(html.contact_text)
        \cup EmailsAsFoundIn(html.body_text \o html.contact_text)

\* the three layers of extract_emails_from_html: the set `emails`
CollectedEmails(html) ==
    LET mailtos == {i \in 1..Len(html.anchors) :
                       /\ StartsWith(html.anchors[i], <<"mailto", ":">>)
                       /\ MailtoAddress(html.anchors[i]) # <<>>}
    IN  {Lower(MailtoAddress(html.anchors[i])) : i \in mailtos}
        \cup EmailsIn(html.contact_text)
        \cup EmailsIn(html.body_text \o html.contact_text)

\* `not any(pattern in email for pattern in exclude_patterns)`
KeptEmail(email) == \A pattern \in ExcludePatterns : ~Contains(email, pattern)

\* extract_emails_from_html(html); html is None (<<>>) or Some(markup)
ExtractEmailsFromHtml(html) ==
    IF html = None THEN {}
    ELSE {email \in CollectedEmails(html[1]) : KeptEmail(email)}

LongLine(piece) == piece.chars > 3

\* the lines of soup.get_text(separator='\n') after the removal of
\* script, style, nav, ...: the footer stays
VisibleLinesST(html) ==
    [i \in 1..Len(html.body_text) |-> Word(html.body_text[i])]
    \o (IF html.filler > 0 THEN <<Filler(html.filler)>> ELSE <<>>)
    \o [i \in 1..Len(html.contact_text) |-> Word(html.contact_text[i])]

\* f"CONTACT_SECTION: {text}" for the footer, when len(text) > 10
PreservedContent(html) ==
    LET text == JoinSpace([i \in 1..Len(html.contact_text) |->
                              Word(html.contact_text[i])])
    IN  IF Chars(text) > 10
        THEN <<Word(<<"CONTACT_SECTION:">>), Space>> \o text
        ELSE <<>>

\* scrapetest.clean_html_content(html)
CleanHtmlContent(html) ==
    IF html = None THEN <<>>
    ELSE LET kept == SelectSeq(VisibleLinesST(html[1]), LongLine)
             pres == PreservedContent(html[1])
         IN  IF pres = <<>> THEN JoinSpace(kept)
             ELSE IF kept = <<>> THEN pres
             ELSE JoinSpace(kept) \o <<Space>> \o pres

\* the words of soup.get_text() after HTMLCleaner's removal of script,
\* style, nav, footer, header, aside, white space normalised
CleanText(html) ==
    JoinSpace( [i \in 1..Len(html.body_text) |-> Word(html.body_text[i])]
               \o (IF html.filler > 0 THEN <<Filler(html.filler)>> ELSE <<>>) )

\* HTMLCleaner.clean_single_page(html, url)
CleanSinglePage(html, url) ==
    IF html = None
    THEN [url |-> url, title |-> <<>>, cleaned_text |-> <<>>]
    ELSE [url |-> url, title |-> <<>>, cleaned_text |-> CleanText(html[1])]

---------------------------------------------------------------------------
(* ContentAggregator: scrapetest.combine_page_content and                  *)
(* HTMLCleaner.combine_page_content.  scraped_pages is the dict as the     *)
(* sequence of its items [key, page] in insertion order.  The aggregate    *)
(* text is kept by its parts: the hint lines, the page sections (label,    *)
(* url, text, the literal suffix) and the emails of the EXTRACTED_EMAILS   *)
(* line.  Every word of body_text and of contact_text is a <p> element on  *)
(* a line of the markup of its own; a location keyword is in the markup    *)
(* of the pages drawn only as an atom of such a word.                      *)

\* the per-page excerpt of scrapetest.combine_page_content: clean_text[:2000]
PageCap == 2000

EmptyContent == [hints |-> <<>>, sections |-> <<>>, emails |-> {}]

HasKey(pages, k) == \E i \in 1..Len(pages) : pages[i].key = k

\* scraped_pages[k] = page
\* an assignment that leaves a failed result out of the dict
DictSetDropsFailed(pages, k, page) ==
    IF ~page.success THEN pages
    ELSE IF \E i \in 1..Len(pages) : pages[i].key = k
    THEN [i \in 1..Len(pages) |->
             IF pages[i].key = k THEN [key |-> k, page |-> page] ELSE pages[i]]
    ELSE Append(pages, [key |-> k, page |-> page])

\* scraped_pages[k] = page
DictSet(pages, k, page) ==
    IF HasKey(pages, k)
    THEN [i \in 1..Len(pages) |->
             IF pages[i].key = k THEN [key |-> k, page |-> page] ELSE pages[i]]
    ELSE Append(pages, [key |-> k, page |-> page])

\* the page type of scrapetest.combine_page_content, from the path of the key
PageType(url) ==
    LET page_path == Lower(UrlParse(url).path)
        AnyIn(xs) == \E x \in xs : Contains(page_path, <<x>>)
    IN  IF page_path = <<"/">> \/ page_path = <<>> THEN "HOMEPAGE"
        ELSE IF AnyIn({"about", "company"})
                \/ Contains(page_path, <<"who", "-", "we", "-", "are">>)
        THEN "ABOUT"
        ELSE IF AnyIn({"service", "product", "solution", "offering"})
        THEN "SERVICES"
        ELSE IF AnyIn({"team", "leadership", "management"}) THEN "TEAM"
        ELSE IF AnyIn({"contact"}) THEN "CONTACT"
        ELSE "OTHER"

\* re.findall(email_pattern, page_data['html']): the addresses of the raw
\* markup as found, those of the href values first
HtmlEmails(html) ==
    SelectSeq([i \in 1..Len(html.anchors) |->
                  IF StartsWith(html.anchors[i], <<"mailto", ":">>)
                  THEN MailtoAddress(html.anchors[i]) ELSE html.anchors[i]]
              \o html.body_text \o html.contact_text,
              EmailShaped)

RECURSIVE Dedup(_, _)
Dedup(s, acc) ==
    IF s = <<>> THEN acc
    ELSE Dedup(Tail(s), IF Head(s) \in Range(acc) THEN acc
                        ELSE Append(acc, Head(s)))

RECURSIVE Flatten(_)
Flatten(ss) == IF ss = <<>> THEN <<>> ELSE Head(ss) \o Flatten(Tail(ss))

\* location_keywords of scrapetest.combine_page_content
LocationKeywords ==
    << "town", "city", "country", "address", "street", "avenue", "road" >>

\* w[:k] of a word, cut between two atoms
RECURSIVE ClipWord(_, _)
ClipWord(w, k) ==
    IF w = <<>> \/ AtomChars(Head(w)) > k THEN <<>>
    ELSE <<Head(w)>> \o ClipWord(Tail(w), k - AtomChars(Head(w)))

\* the LOCATION CONTEXT hints of one page: for each keyword, the first
\* line that holds it with len(line.strip()) > 10 (the line is
\* <p>word</p>) and more than 5 characters once its tags are removed,
\* cut to 100 characters; `emails` is the text after the label
LocationHints(html) ==
    LET lines == html.body_text \o html.contact_text
        Hit(keyword) ==
            {i \in 1..Len(lines) :
                 /\ Contains(Lower(lines[i]), <<keyword>>)
                 /\ StrChars(lines[i]) + 7 > 10
                 /\ StrChars(lines[i]) > 5}
        HintOf(hits) ==
            IF hits = {} THEN <<>>
            ELSE <<[hint |-> "LOCATION CONTEXT",
                    emails |-> <<ClipWord(
                        lines[CHOOSE i \in hits : \A j \in hits : i <= j],
                        100)>>]>>
    IN  Flatten([n \in 1..Len(LocationKeywords) |->
                    HintOf(Hit(LocationKeywords[n]))])

\* the hint lines one page appends to contact_hints
PageHints(page) ==
    (IF HtmlEmails(page.html[1]) # <<>>
     THEN <<[hint |-> "Emails found in HTML",
             emails |-> Take(HtmlEmails(page.html[1]), 2)]>>
     ELSE <<>>)
    \o LocationHints(page.html[1])

\* the section one page appends to combined_content, if any
PageSectionST(url, page) ==
    LET clean_text == CleanHtmlContent(page.html)
    IN  IF clean_text # <<>>
        THEN <<[label |-> PageType(url), url |-> url,
                text |-> TakeChars(clean_text, PageCap), suffix |-> "..."]>>
        ELSE <<>>

\* combine_page_content with the emails of every layer, the excluded ones
\* among them, in all_emails
CombinePageContentUnfiltered(pages, seed) ==
    LET ok == SelectSeq(pages, LAMBDA item : item.page.success)
    IN  [ hints    |-> Take(SetToList(
                                Dedup(Flatten([i \in 1..Len(ok) |->
                                                  PageHints(ok[i].page)]), <<>>),
                                seed), 5),
          sections |-> Flatten([i \in 1..Len(ok) |->
                                   PageSectionST(ok[i].key, ok[i].page)]),
          emails   |-> UNION {CollectedEmails(ok[i].page.html[1]) :
                                  i \in 1..Len(ok)} ]

\* combine_page_content with the hints in the order found, not limited
CombinePageContentAllHints(pages, seed) ==
    LET ok == SelectSeq(pages, LAMBDA item : item.page.success)
    IN  [ hints    |-> SetToList(
                           Dedup(Flatten([i \in 1..Len(ok) |->
                                             PageHints(ok[i].page)]), <<>>),
                           seed),
          sections |-> Flatten([i \in 1..Len(ok) |->
                                   PageSectionST(ok[i].key, ok[i].page)]),
          emails   |-> UNION {ExtractEmailsFromHtml(ok[i].page.html) :
                                  i \in 1..Len(ok)} ]

\* scrapetest.combine_page_content(scraped_pages)
CombinePageContentST(pages, seed) ==
    LET ok == SelectSeq(pages, LAMBDA item : item.page.success)
    IN  [ hints    |-> Take(SetToList(
                                Dedup(Flatten([i \in 1..Len(ok) |->
                                                  PageHints(ok[i].page)]), <<>>),
                                seed), 5),
          sections |-> Flatten([i \in 1..Len(ok) |->
                                   PageSectionST(ok[i].key, ok[i].page)]),
          emails   |-> UNION {ExtractEmailsFromHtml(ok[i].page.html) :
                                  i \in 1..Len(ok)} ]

\* the section HTMLCleaner.combine_page_content appends for one page
PageSectionWS(key, page) ==
    LET data == CleanSinglePage(page.html, page.url)
    IN  IF data.cleaned_text # <<>>
        THEN <<[label |-> IF key = <<"homepage">> THEN "HOMEPAGE" ELSE "TITLE",
                url |-> page.url, text |-> data.cleaned_text, suffix |-> ""]>>
        ELSE <<>>

\* HTMLCleaner.combine_page_content(scraped_pages)
CombinePageContentWS(pages) ==
    LET home  == SelectSeq(pages, LAMBDA item :
                     item.key = <<"homepage">> /\ item.page.success)
        other == SelectSeq(pages, LAMBDA item :
                     item.key # <<"homepage">> /\ item.page.success)
        both  == home \o other
    IN  [ hints    |-> <<>>,
          sections |-> Flatten([i \in 1..Len(both) |->
                                   PageSectionWS(both[i].key, both[i].page)]),
          emails   |-> {} ]

---------------------------------------------------------------------------
(* TemplateExtractor and ExtractionValidator.  A parsed reply or a         *)
(* returned record is [type, top]: type is "dict", "list" or "none"        *)
(* (Python's None), top maps the keys of a dict to its values.  A value is *)
(* a section (a dict of leaves) or a scalar; a leaf is a string, the empty *)
(* string standing for null and the empty list.                            *)

NoFields == [k \in {} |-> <<>>]
Section(fields) == [isdict |-> TRUE, fields |-> fields, value |-> <<>>]
Scalar(v) == [isdict |-> FALSE, fields |-> NoFields, value |-> v]

DictData(top) == [type |-> "dict", top |-> top]
ListData == [type |-> "list", top |-> NoFields]
NoneData == [type |-> "none", top |-> NoFields]

\* d[k] = v on a mapping
Put(d, k, v) == [x \in DOMAIN d \cup {k} |-> IF x = k THEN v ELSE d[x]]

\* what the chat-completion call does: it raises, or it returns a reply.
\* A reply is a JSON document of type json ("object", "array", "null") with
\* the value `value`, or text that is no JSON ("invalid") in which `labels`
\* of the labeled-line patterns of _structure_text_response match.
\* no chat-completion call yet
NoCall ==
    [kind |-> "none", json |-> "", value |-> NoFields, labels |-> {},
     open |-> "", close |-> FALSE]
LlmRaises ==
    [kind |-> "raises", json |-> "", value |-> NoFields, labels |-> {},
     open |-> "", close |-> FALSE]
LlmReply(json, value, labels) ==
    [kind |-> "reply", json |-> json, value |-> value, labels |-> labels,
     open |-> "", close |-> FALSE]

\* the reply inside a Markdown code fence: the text after strip() starts
\* with `open` (the fence of three backticks, "fence", or the fence with
\* the json tag, "fence_json") and ends with a fence when `close`
Fenced(open, close, reply) == [reply EXCEPT !.open = open, !.close = close]

\* response_text[7:-3] for a text that starts with the json fence,
\* response_text[3:-3] for one that starts with a fence: the opening fence
\* goes, and the last three characters go, which are the closing fence
\* when there is one and else the end of the body, and a JSON document
\* without its last three characters is no JSON document
StripCodeFence(reply) ==
    IF reply.open \in {"fence_json", "fence"}
    THEN [reply EXCEPT !.open = "", !.close = FALSE,
                       !.json = IF reply.close THEN @ ELSE "invalid"]
    ELSE reply

\* what json.loads(text) sees: a text with a fence in it is no JSON
Loads(reply) ==
    IF reply.open # "" \/ reply.close
    THEN [reply EXCEPT !.json = "invalid"]
    ELSE reply

\* ScraperAgent._structure_text_response(text_response)
StructureTextResponse(reply) ==
    LET structured_data == [k \in reply.labels |-> <<"match">>]
    IN  IF Cardinality(reply.labels) < 2
        THEN DictData(
                 [ extraction_method |-> Scalar(<<"text_fallback">>),
                   raw_response      |-> Scalar(<<"reply">>),
                   structured_data   |-> Section(structured_data),
                   note |-> Scalar(<<"Could not parse into full JSON structure">>) ])
        ELSE DictData([k \in reply.labels |-> Scalar(<<"match">>)])

\* json.loads(extracted_text) of a reply that is JSON
ParsedJson(reply) ==
    CASE reply.json = "object" -> DictData(reply.value)
      [] reply.json = "array"  -> ListData
      [] OTHER                 -> NoneData

\* extract_company_data returning None when the completion call raises
ExtractCompanyDataNoneOnError(content, llm) ==
    IF llm.kind = "raises" THEN NoneData
    ELSE IF Loads(llm).json = "invalid" THEN StructureTextResponse(llm)
    ELSE ParsedJson(llm)


\* ScraperAgent.extract_company_data(cleaned_content, base_url)
ExtractCompanyData(content, llm) ==
    IF llm.kind = "raises"
    THEN DictData([ error             |-> Scalar(<<"api error">>),
                    extraction_failed |-> Scalar(<<"True">>) ])
    ELSE IF Loads(llm).json = "invalid" THEN StructureTextResponse(llm)
    ELSE ParsedJson(llm)

RequiredSections == {"company_snapshot", "mission_vision_values"}

Truthy(v) == v.isdict \/ v.value # <<>>

\* the leaves of the sections of a dict, as <<section, field>> pairs
LeafKeys(data) ==
    UNION { {<<sec, f>> : f \in DOMAIN data.top[sec].fields} :
                sec \in {x \in DOMAIN data.top : data.top[x].isdict} }

AvailableLeaf(value) ==
    /\ value # <<>>
    /\ value # <<"Not available">>
    /\ value # <<"Not found">>

Verdict(raised, is_valid, message, available, total) ==
    [ raised |-> raised, is_valid |-> is_valid, message |-> message,
      available |-> available, total |-> total ]

\* validate_extraction not called yet
NoVerdict == Verdict(FALSE, FALSE, "", 0, 0)

\* validate_extraction with `completion_rate <= 0.1` in place of `< 0.1`
ValidateExtractionAtMost(data) ==
    LET total     == Cardinality(LeafKeys(data))
        available == Cardinality({k \in LeafKeys(data) :
                         AvailableLeaf(data.top[k[1]].fields[k[2]])})
    IN  IF data.type = "none" \/ (data.type = "dict" /\ DOMAIN data.top = {})
        THEN Verdict(FALSE, FALSE, "Extraction failed", 0, 0)
        ELSE IF data.type = "list"
        THEN Verdict(TRUE, FALSE, "AttributeError", 0, 0)
        ELSE IF /\ "extraction_failed" \in DOMAIN data.top
                /\ Truthy(data.top["extraction_failed"])
        THEN Verdict(FALSE, FALSE, "Extraction failed", 0, 0)
        ELSE IF ~(RequiredSections \subseteq DOMAIN data.top)
        THEN Verdict(FALSE, FALSE, "Missing required section", 0, 0)
        ELSE IF total = 0 \/ available * 10 <= total
        THEN Verdict(FALSE, FALSE, "Low completion rate", available, total)
        ELSE Verdict(FALSE, TRUE, "Extraction valid", available, total)

\* validate_extraction without the loop over required_sections
ValidateExtractionAnySections(data) ==
    LET total     == Cardinality(LeafKeys(data))
        available == Cardinality({k \in LeafKeys(data) :
                         AvailableLeaf(data.top[k[1]].fields[k[2]])})
    IN  IF data.type = "none" \/ (data.type = "dict" /\ DOMAIN data.top = {})
        THEN Verdict(FALSE, FALSE, "Extraction failed", 0, 0)
        ELSE IF data.type = "list"
        THEN Verdict(TRUE, FALSE, "AttributeError", 0, 0)
        ELSE IF /\ "extraction_failed" \in DOMAIN data.top
                /\ Truthy(data.top["extraction_failed"])
        THEN Verdict(FALSE, FALSE, "Extraction failed", 0, 0)
        ELSE IF total = 0 \/ available * 10 < total
        THEN Verdict(FALSE, FALSE, "Low completion rate", available, total)
        ELSE Verdict(FALSE, TRUE, "Extraction valid", available, total)

\* ScraperAgent.validate_extraction(extracted_data); `raised` when the call
\* ends in an exception (a list has no get).  completion_rate is
\* available / total, and 0 when total is 0.
ValidateExtraction(data) ==
    LET total     == Cardinality(LeafKeys(data))
        available == Cardinality({k \in LeafKeys(data) :
                         AvailableLeaf(data.top[k[1]].fields[k[2]])})
    IN  IF data.type = "none" \/ (data.type = "dict" /\ DOMAIN data.top = {})
        THEN Verdict(FALSE, FALSE, "Extraction failed", 0, 0)
        ELSE IF data.type = "list"
        THEN Verdict(TRUE, FALSE, "AttributeError", 0, 0)
        ELSE IF /\ "extraction_failed" \in DOMAIN data.top
                /\ Truthy(data.top["extraction_failed"])
        THEN Verdict(FALSE, FALSE, "Extraction failed", 0, 0)
        ELSE IF ~(RequiredSections \subseteq DOMAIN data.top)
        THEN Verdict(FALSE, FALSE, "Missing required section", 0, 0)
        ELSE IF total = 0 \/ available * 10 < total
        THEN Verdict(FALSE, FALSE, "Low completion rate", available, total)
        ELSE Verdict(FALSE, TRUE, "Extraction valid", available, total)

\* sorted(): atoms in the order of their first characters' code points
AtomOrder ==
    << "-", ".", "@", "Example", "Info", "NoReply", "acme", "admin", "com",
       "contact", "example", "hello", "info", "jane", "no", "noreply", "org",
       "reply", "sales", "support", "test" >>

AtomRank(a) ==
    IF \E i \in 1..Len(AtomOrder) : AtomOrder[i] = a
    THEN CHOOSE i \in 1..Len(AtomOrder) : AtomOrder[i] = a
    ELSE Len(AtomOrder) + 1

RECURSIVE StrLess(_, _)
StrLess(a, b) ==
    IF b = <<>> THEN FALSE
    ELSE IF a = <<>> THEN TRUE
    ELSE IF Head(a) = Head(b) THEN StrLess(Tail(a), Tail(b))
    ELSE AtomRank(Head(a)) < AtomRank(Head(b))

\* sorted(strs)[0]
FirstSorted(strs) == CHOOSE x \in strs : \A y \in strs : y = x \/ StrLess(x, y)

\* the section headers, texts and hint lines of the aggregate as words
ContentWords(content) ==
    Flatten([i \in 1..Len(content.hints) |-> content.hints[i].emails])
    \o Flatten([i \in 1..Len(content.sections) |->
                   <<content.sections[i].url>>
                   \o [j \in 1..Len(content.sections[i].text) |->
                          content.sections[i].text[j].s]])

\* exclude_terms and the business prefixes of the email fallback
ExcludeTerms ==
    { <<"noreply">>, <<"no", "-", "reply">>, <<"donotreply">>,
      <<"example", ".", "com">>, <<"test", ".", "com">> }
BusinessPrefixes == { <<p, "@">> : p \in {"info", "contact", "hello", "support", "sales"} }

\* business_emails with every email appended, the priority ones too
BusinessEmailsAppended(content, seed) ==
    LET found == SetToList(Dedup(SelectSeq(ContentWords(content), EmailShaped),
                                 <<>>), seed)
    IN  SelectSeq([i \in 1..Len(found) |-> Lower(found[i])],
            LAMBDA e : \A t \in ExcludeTerms : ~Contains(e, t))

\* business_emails of the email fallback: the priority emails (each
\* inserted at the front) before the others, the set iterated in the
\* order of the seed
BusinessEmails(content, seed) ==
    LET found == SetToList(Dedup(SelectSeq(ContentWords(content), EmailShaped),
                                 <<>>), seed)
        kept  == SelectSeq([i \in 1..Len(found) |-> Lower(found[i])],
                     LAMBDA e : \A t \in ExcludeTerms : ~Contains(e, t))
        IsPriority(e) == \E bp \in BusinessPrefixes : Contains(e, bp)
    IN  Reverse(SelectSeq(kept, IsPriority))
        \o SelectSeq(kept, LAMBDA e : ~IsPriority(e))

\* the email the fallback enrichment sets, <<>> when it sets none
FallbackEmail(content, seed) ==
    IF content.emails # {} THEN FirstSorted(content.emails)
    ELSE IF BusinessEmails(content, seed) # <<>>
    THEN BusinessEmails(content, seed)[1]
    ELSE <<>>

\* the number of digits of an atom of digits, 0 for every other atom
DigitsOf(a) ==
    CASE a \in {"12"} -> 2
      [] a \in {"555", "010"} -> 3
      [] a \in {"0199"} -> 4
      [] a \in {"62704"} -> 5
      [] OTHER -> 0

\* the US phone pattern matches the piece: 3 digits, 3 digits and 4 digits
\* with a separator between them
PhoneShapedUS(w) ==
    /\ Len(w) = 5
    /\ DigitsOf(w[1]) = 3 /\ DigitsOf(w[3]) = 3 /\ DigitsOf(w[5]) = 4
    /\ w[2] \in {"-", "."} /\ w[4] \in {"-", "."}

\* what the international phone pattern finds in a piece: a US-shaped
\* piece whole, else the first run of four digits or more
PhoneFoundIntl(w) ==
    IF PhoneShapedUS(w) THEN <<w>>
    ELSE LET runs == {i \in 1..Len(w) : DigitsOf(w[i]) >= 4}
         IN  IF runs = {} THEN <<>>
             ELSE <<<<w[CHOOSE i \in runs : \A j \in runs : i <= j]>>>>

\* the phone the fallback sets: the first match of the first phone pattern
\* that matches anywhere in the aggregate, <<>> when none does
FallbackPhone(content) ==
    LET First(us, intl) ==
            IF us # <<>> THEN us[1]
            ELSE IF intl # <<>> THEN intl[1]
            ELSE <<>>
    IN  First(SelectSeq(ContentWords(content), PhoneShapedUS),
              Flatten([i \in 1..Len(ContentWords(content)) |->
                          PhoneFoundIntl(ContentWords(content)[i])]))

\* the first address pattern matches the piece: a number, words, a street
\* type, a town, a two-letter state and a five-digit code
AddressShaped(w) ==
    /\ Len(w) >= 7
    /\ DigitsOf(w[1]) > 0
    /\ \E i \in 2..Len(w) :
           w[i] \in {"Street", "St", "Avenue", "Ave", "Road", "Rd",
                     "Boulevard", "Blvd", "Drive", "Dr", "Lane", "Ln", "Way",
                     "Place", "Pl"}
    /\ DigitsOf(w[Len(w)]) = 5
    /\ w[Len(w) - 1] = " "
    /\ w[Len(w) - 2] \in {"IL", "NY", "CA"}

\* the address the fallback sets
FallbackAddress(content) ==
    LET First(found) == IF found # <<>> THEN found[1] ELSE <<>>
    IN  First(SelectSeq(ContentWords(content), AddressShaped))

\* the linkedin pattern of social_patterns matches the piece, in any
\* letter case
LinkedinShaped(w) ==
    /\ Len(w) = 7
    /\ Lower(SubSeq(w, 1, 6)) = <<"linkedin", ".", "com", "/", "company", "/">>

\* the social_media dict the fallback sets, by its one entry: of the
\* platforms only linkedin occurs in the aggregates drawn
FallbackSocialMedia(content) ==
    LET First(found) ==
            IF found # <<>> THEN <<"https", ":", "//">> \o found[1] ELSE <<>>
    IN  First(SelectSeq(ContentWords(content), LinkedinShaped))

\* a piece 'trusted by <names>.'
TrustedByShaped(w) ==
    /\ Len(w) >= 6
    /\ Lower(SubSeq(w, 1, 4)) = <<"trusted", " ", "by", " ">>
    /\ w[Len(w)] = "."

\* the case_studies entry the fallback sets: the names after 'trusted by'
\* up to the full stop
FallbackCaseStudies(content) ==
    LET First(found) ==
            IF found # <<>>
            THEN <<"Mentioned clients: ">>
                 \o SubSeq(found[1], 5, Len(found[1]) - 1)
            ELSE <<>>
    IN  First(SelectSeq(ContentWords(content), TrustedByShaped))

\* a sentence of more than 20 characters of the aggregate holds a
\* testimonial indicator: of the indicators only 'testimonial', in the URL
\* of a section header, and 'trusted by' occur in the aggregates drawn
TestimonialContent(content) ==
    \/ \E i \in 1..Len(content.sections) :
           \E j \in 1..Len(content.sections[i].url) :
               AtomStartsWith(content.sections[i].url[j], "testimonial")
    \/ \E i \in 1..Len(ContentWords(content)) :
           TrustedByShaped(ContentWords(content)[i])

\* the testimonials the fallback sets: testimonial_content[:3]
FallbackTestimonials(content) ==
    IF TestimonialContent(content) THEN <<"sentences">> ELSE <<>>

GetSection(top, k) == IF k \in DOMAIN top THEN top[k].fields ELSE NoFields
GetLeaf(fields, k) == IF k \in DOMAIN fields THEN fields[k] ELSE <<>>

\* a fallback that sets the field whenever it found something
FillAlways(fields, key, found) ==
    IF found # <<>> THEN Put(fields, key, found) ELSE fields

\* `if not section.get(key)`, and the assignment when the fallback found
\* something
Fill(fields, key, found) ==
    IF GetLeaf(fields, key) = <<>> /\ found # <<>>
    THEN Put(fields, key, found)
    ELSE fields

\* the fallback enrichment of extract_company_data_with_gpt on the parsed
\* dict
Enrich(top, content, seed) ==
    LET contact_info ==
            Fill(Fill(Fill(Fill(GetSection(top, "contact_info"),
                                "email", FallbackEmail(content, seed)),
                           "phone", FallbackPhone(content)),
                      "address", FallbackAddress(content)),
                 "social_media", FallbackSocialMedia(content))
        social_proof ==
            Fill(Fill(GetSection(top, "social_proof"),
                      "testimonials", FallbackTestimonials(content)),
                 "case_studies", FallbackCaseStudies(content))
    IN  Put(Put(top, "contact_info", Section(contact_info)),
            "social_proof", Section(social_proof))

\* the reply holds the section k with a value that is no mapping (null, a
\* string, a list): extracted_data.get(k, {}) returns that value, and its
\* .get raises AttributeError
NotMapping(top, k) == k \in DOMAIN top /\ ~top[k].isdict

\* scrapetest.extract_company_data_with_gpt(combined_content, template):
\* contact_info.get("email") is always evaluated; social_proof.get(...) is
\* evaluated only behind `testimonial_content and` / `client_mentions and`
ExtractCompanyDataWithGpt(content, llm, seed) ==
    IF llm.kind = "raises" \/ Loads(StripCodeFence(llm)).json # "object"
    THEN NoneData
    ELSE IF NotMapping(llm.value, "contact_info")
    THEN NoneData
    ELSE IF NotMapping(llm.value, "social_proof")
    THEN IF FallbackTestimonials(content) # <<>>
            \/ FallbackCaseStudies(content) # <<>>
         THEN NoneData
         ELSE DictData(Put(Enrich(llm.value, content, seed), "social_proof",
                           llm.value["social_proof"]))
    ELSE DictData(Enrich(llm.value, content, seed))

---------------------------------------------------------------------------
(* The aggregate text as the string the combine functions return: the      *)
(* pieces of its parts in their order, with the fixed marker tokens and    *)
(* separators as pieces of their own.                                      *)

\* a fixed token of n characters
Literal(name, n) == [s |-> <<name>>, chars |-> n]

\* sorted(strs)
RECURSIVE Sorted(_)
Sorted(strs) ==
    IF strs = {} THEN <<>>
    ELSE <<FirstSorted(strs)>> \o Sorted(strs \ {FirstSorted(strs)})

\* ', '.join(words)
RECURSIVE JoinComma(_)
JoinComma(words) ==
    IF words = <<>> THEN <<>>
    ELSE IF Len(words) = 1 THEN <<Word(words[1])>>
    ELSE <<Word(Head(words)), Literal(", ", 2)>> \o JoinComma(Tail(words))

\* one hint line of the block and the line break after it
HintLine(h) ==
    <<IF h.hint = "LOCATION CONTEXT"
      THEN Literal("LOCATION CONTEXT:", 20)
      ELSE Literal("CRITICAL: Emails found in HTML:", 34)>>
    \o JoinComma(h.emails) \o <<Literal("NL", 1)>>

\* f"\n\n=== {page_type} PAGE ({url}) ===\n{clean_text[:2000]}...\n"
SectionTextST(sec) ==
    <<[s     |-> <<"===", sec.label, "PAGE">> \o sec.url,
       chars |-> 6 + AtomChars(sec.label) + 7 + StrChars(sec.url) + 6]>>
    \o sec.text \o <<Literal(sec.suffix, 4)>>

\* the string scrapetest.combine_page_content returns
AggregateTextST(content) ==
    (IF content.hints # <<>>
     THEN <<Literal("SMART CONTACT DETECTION:", 28)>>
          \o Flatten([i \in 1..Len(content.hints) |->
                         HintLine(content.hints[i])])
          \o <<Literal("NL", 1)>>
     ELSE <<>>)
    \o Flatten([i \in 1..Len(content.sections) |->
                   SectionTextST(content.sections[i])])
    \o (IF content.emails # {}
        THEN <<Literal("EXTRACTED_EMAILS:", 20)>>
             \o JoinComma(Sorted(content.emails)) \o <<Literal("NL", 1)>>
        ELSE <<>>)

\* f"=== HOMEPAGE ===\n{text}" and f"=== {page_title.upper()} ===\n{text}",
\* the title of the pages drawn being empty
SectionTextWS(sec) ==
    <<[s     |-> <<"===", sec.label>> \o sec.url,
       chars |-> IF sec.label = "HOMEPAGE" THEN 17
                 ELSE 4 + StrChars(sec.url) + 5]>>
    \o sec.text

\* "\n\n".join(combined_sections) of HTMLCleaner.combine_page_content
RECURSIVE JoinSections(_)
JoinSections(secs) ==
    IF secs = <<>> THEN <<>>
    ELSE IF Len(secs) = 1 THEN SectionTextWS(secs[1])
    ELSE SectionTextWS(Head(secs)) \o <<Literal("NL", 2)>>
         \o JoinSections(Tail(secs))

AggregateTextWS(content) == JoinSections(content.sections)

AggregateText(e, content) ==
    IF e = "workflow" THEN AggregateTextWS(content)
    ELSE AggregateTextST(content)

\* the character ceiling of the content in scrapetest's prompt
PromptCap == 20000

\* {combined_content[:20000]} of create_enhanced_extraction_prompt
PromptContentST(text) == TakeChars(text, PromptCap)

\* {content} of ScraperAgent._build_extraction_prompt
PromptContentWS(text) == text

\* the website content embedded in the prompt of the extraction call
PromptContent(e, content) ==
    IF e = "workflow" THEN PromptContentWS(AggregateTextWS(content))
    ELSE PromptContentST(AggregateTextST(content))

---------------------------------------------------------------------------
(* The job result of ScrapeWorkflow.run and its persistence.               *)

\* f"HTTP {response.status_code}" and str(e)
HttpError(code) == [msg |-> "HTTP", code |-> code]
ExceptionText(text) == [msg |-> text, code |-> 0]

\* the dict workflow_result; a key the code has not set yet is None
InitialResult ==
    [ status |-> "pending", success |-> FALSE, error |-> None,
      pages_scraped |-> None, extracted_data |-> None,
      extraction_valid |-> None, validation_message |-> None,
      database_id |-> None, database_error |-> None ]

\* no ScrapeWorkflow.run in this job
NoResult == [InitialResult EXCEPT !.status = "none"]

JobId == <<"job", "-", "1">>

\* the value of the 'error' key: a prefix and the text of the cause
WorkflowError(prefix, cause) == [prefix |-> prefix, cause |-> cause]

\* the except branch that sets the error and leaves the status as it is
OnExceptionKeepsStatus(result, e) ==
    [result EXCEPT !.success = FALSE,
                   !.error = Some(WorkflowError("", ExceptionText(e)))]

\* the except branch of ScrapeWorkflow.run, str(e) being e
OnException(result, e) ==
    [result EXCEPT !.status = "failed", !.success = FALSE,
                   !.error = Some(WorkflowError("", ExceptionText(e)))]

\* the return of run when scrape_website reports no success:
\* f"Failed to scrape homepage: {homepage_result['error']}"
OnScrapingFailed(result, homepage_error) ==
    [result EXCEPT !.status = "failed",
                   !.error = Some(WorkflowError("Failed to scrape homepage: ",
                                                homepage_error))]

Numerals ==
    << "0", "1", "2", "3", "4", "5", "6", "7", "8", "9", "10", "11", "12",
       "13", "14", "15", "16" >>

\* f"page_{i}"
PageKey(i) == <<"page_", Numerals[i + 1]>>

Keys(pages) == [i \in 1..Len(pages) |-> pages[i].key]

\* ScrapeWorkflow._save_to_database(...), the insert ending as db says:
\* "stored", "no_data" or "raises".  len(v.get('html', '')) raises for a
\* page whose html is None, before the insert is reached.  `inserted` is
\* the call of insert, if any: the row handed over and how it ended.
SaveToDatabase(job_id, raw_pages, data, db) ==
    LET row == [ id |-> job_id, status |-> "completed",
                 extracted_data |-> data,
                 pages_scraped |-> [i \in 1..Len(raw_pages) |-> PageKey(i - 1)],
                 scraper_response_codes |->
                     [i \in 1..Len(raw_pages) |->
                         [key |-> raw_pages[i].key,
                          code |-> raw_pages[i].page.status_code]] ]
        call == <<[row |-> row, outcome |-> db]>>
    IN  IF \E i \in 1..Len(raw_pages) : raw_pages[i].page.html = None
        THEN [success |-> FALSE, error |-> Some("TypeError"),
              inserted |-> <<>>]
        ELSE IF db = "stored"
        THEN [success |-> TRUE, error |-> None, inserted |-> call]
        ELSE IF db = "no_data"
        THEN [success |-> FALSE, error |-> Some("Database insert failed"),
              inserted |-> call]
        ELSE [success |-> FALSE, error |-> Some("insert raised"),
              inserted |-> call]

\* run, lines 117-129, with a failed save ending the job as failed
OnDatabaseResultFailsJob(result, db_result) ==
    [result EXCEPT
         !.database_id = IF db_result.success THEN Some(JobId) ELSE None,
         !.database_error = db_result.error,
         !.status = IF db_result.success THEN "completed" ELSE "failed",
         !.success = db_result.success]

\* run, lines 117-129: database_id or database_error, and the final status
OnDatabaseResult(result, db_result) ==
    [result EXCEPT
         !.database_id = IF db_result.success THEN Some(JobId) ELSE None,
         !.database_error = db_result.error,
         !.status = "completed",
         !.success = TRUE]

DbOutcomes == {"stored", "no_data", "raises"}

---------------------------------------------------------------------------
(* The webhook path of app.py: handle_webhook and                          *)
(* cleanup_conversation_data.  A request is the JSON body with, for the    *)
(* two writes to the store, how the store answers: "stored", "no_data"     *)
(* (execute() returns no data) or "raises".  data_collection_results is    *)
(* a function from field names to None (the field is no dict with a        *)
(* 'value' key) or Some(value).  A row of user_data_points is kept by      *)
(* user_id, data_point_key and value.                                      *)

\* str.strip()
RECURSIVE LStripSpace(_)
LStripSpace(s) ==
    IF s # <<>> /\ Head(s) = " " THEN LStripSpace(Tail(s)) ELSE s

RECURSIVE RStripSpace(_)
RStripSpace(s) ==
    IF s # <<>> /\ s[Len(s)] = " "
    THEN RStripSpace(SubSeq(s, 1, Len(s) - 1)) ELSE s

StripSpace(s) == RStripSpace(LStripSpace(s))

\* get_user_id(conversation)
GetUserId(conversation) ==
    IF "user_id" \in DOMAIN conversation.dynamic_variables
    THEN conversation.dynamic_variables["user_id"]
    ELSE IF "user_name" \in DOMAIN conversation.dynamic_variables
    THEN <<"test_user_">> \o conversation.dynamic_variables["user_name"]
    ELSE <<"test_user_">> \o ClipWord(conversation.conversation_id, 8)

\* organized_data of handle_webhook: the fields that are a dict with a
\* 'value' key, by name
OrganizedData(conversation) ==
    [k \in {x \in DOMAIN conversation.data_collection_results :
                conversation.data_collection_results[x] # None} |->
        conversation.data_collection_results[k][1]]

\* skip_fields of cleanup_conversation_data
SkipFields ==
    {"session_id", "correction_handling", "information_completeness_tracker"}

\* an upsert that inserts a new row whatever the table holds
UpsertAsInsert(rows, record) == Append(rows, record)

\* supabase.table('user_data_points').upsert(record,
\*     on_conflict='user_id,data_point_key')
Upsert(rows, record) ==
    IF \E i \in 1..Len(rows) :
           /\ rows[i].user_id = record.user_id
           /\ rows[i].data_point_key = record.data_point_key
    THEN [i \in 1..Len(rows) |->
             IF /\ rows[i].user_id = record.user_id
                /\ rows[i].data_point_key = record.data_point_key
             THEN record ELSE rows[i]]
    ELSE Append(rows, record)

\* the loop of cleanup_conversation_data over the fields `names` of
\* extracted_data, the upserts answered by `upsert`
RECURSIVE CleanupFields(_, _, _, _, _)
CleanupFields(rows, user_id, extracted, names, upsert) ==
    IF names = <<>> THEN rows
    ELSE CleanupFields(
             IF /\ Head(names) \in DOMAIN extracted
                /\ Head(names) \notin SkipFields
                /\ extracted[Head(names)] # <<>>
                /\ upsert = "stored"
             THEN Upsert(rows, [ user_id        |-> user_id,
                                 data_point_key |-> Head(names),
                                 value |-> StripSpace(extracted[Head(names)]) ])
             ELSE rows,
             user_id, extracted, Tail(names), upsert)

\* the field names of the requests drawn, in the order of the JSON body
FieldNames == << "goal", "session_id" >>

\* cleanup_conversation_data(conversation_record)
CleanupConversationData(rows, conversation, upsert) ==
    CleanupFields(rows, GetUserId(conversation), OrganizedData(conversation),
                  FieldNames, upsert)

\* no request received yet
NoHook == [seq |-> 0, request |-> <<>>, status |-> ""]

HookIdle ==
    /\ hook = NoHook
    /\ conversations = <<>>
    /\ user_data_points = <<>>

---------------------------------------------------------------------------
(* discover_internal_links applied to every homepage drawn.                *)

JobIdle ==
    /\ scraped_pages = <<>>
    /\ pages_scraped = 0
    /\ link_index = 0
    /\ requests = <<>>
    /\ calls = <<>>
    /\ workflow_result = NoResult
    /\ combined_content = EmptyContent
    /\ extracted_data = NoneData
    /\ scrape_jobs = <<>>
    /\ llm_reply = NoCall
    /\ validation = NoVerdict
    /\ prompt = <<>>
    /\ HookIdle

InitLinks ==
    /\ entry \in Entries
    /\ base_url \in BaseUrls
    /\ homepage_html \in Homepages
    /\ hash_seed \in 0..MaxSeed
    /\ internal_links = <<>>
    /\ pc = "discover"
    /\ max_pages = 0
    /\ filtered_emails = {}
    /\ JobIdle

Discover ==
    /\ pc = "discover"
    /\ internal_links' =
           DiscoverInternalLinks(entry, homepage_html, base_url, hash_seed)
    /\ pc' = "discovered"
    /\ UNCHANGED <<entry, base_url, homepage_html, hash_seed, jobVars,
                   filtered_emails,
                   llm_reply, validation, hookVars>>

NextLinks == Discover

SpecLinks == InitLinks /\ [][NextLinks]_vars

Host(url) == UrlParse(url).netloc

\* C3: every URL discover_internal_links returns has the host of base_url
C3_SameHost ==
    pc = "discovered" =>
        \A i \in 1..Len(internal_links) :
            Host(internal_links[i]) = Host(base_url)

\* C4: discover_internal_links returns at most K URLs (10 in WebScraper, 8 in
\* scrapetest) and no resolved URL twice
C4_BoundedNoDuplicates ==
    pc = "discovered" =>
        /\ Len(internal_links) <= (IF entry = "workflow" THEN 10 ELSE 8)
        /\ \A i, j \in 1..Len(internal_links) :
               internal_links[i] = internal_links[j] => i = j

\* more distinct keyword links than K on the page, one of them twice, and
\* exactly K returned
C4_Witness ==
    /\ pc = "discovered"
    /\ Cardinality(Range(LinkSet(entry, homepage_html.anchors, base_url, <<>>)))
           > LinkLimit(entry)
    /\ \E i, j \in 1..Len(homepage_html.anchors) :
           /\ i # j
           /\ ResolveLink(entry, homepage_html.anchors[i], base_url).keep
           /\ ResolveLink(entry, homepage_html.anchors[i], base_url)
                  = ResolveLink(entry, homepage_html.anchors[j], base_url)
    /\ Len(internal_links) = LinkLimit(entry)

---------------------------------------------------------------------------
(* PageFetcher: ScraperAPIClient.scrape_url and scrapetest's               *)
(* scrape_website_page.  The proxy's answer to requests.get is a response  *)
(* with a status code and a body, or an exception raised by the transport. *)

HttpResponse(code, body) ==
    [kind |-> "response", status_code |-> code, body |-> body, exc |-> ""]

TransportError(text) ==
    [kind |-> "exception", status_code |-> 0,
     body |-> Html(<<>>, <<>>, <<>>, 0), exc |-> text]

\* scrape_url with response.ok in place of status_code == 200
ScrapeUrlAny2xx(url, resp) ==
    IF resp.kind = "exception"
    THEN [ success |-> FALSE, status_code |-> None, html |-> None,
           url |-> url, error |-> Some(ExceptionText(resp.exc)) ]
    ELSE [ success     |-> resp.status_code \in 200..299,
           status_code |-> Some(resp.status_code),
           html        |-> IF resp.status_code \in 200..299
                           THEN Some(resp.body) ELSE None,
           url         |-> url,
           error       |-> IF resp.status_code \in 200..299
                           THEN None ELSE Some(HttpError(resp.status_code)) ]

\* ScraperAPIClient.scrape_url(url), the proxy answering resp
ScrapeUrl(url, resp) ==
    IF resp.kind = "exception"
    THEN [ success |-> FALSE, status_code |-> None, html |-> None,
           url |-> url, error |-> Some(ExceptionText(resp.exc)) ]
    ELSE [ success     |-> resp.status_code = 200,
           status_code |-> Some(resp.status_code),
           html        |-> IF resp.status_code = 200
                           THEN Some(resp.body) ELSE None,
           url         |-> url,
           error       |-> IF resp.status_code = 200
                           THEN None ELSE Some(HttpError(resp.status_code)) ]

\* scrapetest.scrape_website_page(url), the proxy answering resp
ScrapeWebsitePage(url, resp) ==
    IF resp.kind = "exception"
    THEN [ url |-> url, html |-> None, status_code |-> None,
           success |-> FALSE, error |-> Some(ExceptionText(resp.exc)) ]
    ELSE IF resp.status_code = 200
    THEN [ url |-> url, html |-> Some(resp.body),
           status_code |-> Some(resp.status_code),
           success |-> TRUE, error |-> None ]
    ELSE [ url |-> url, html |-> None,
           status_code |-> Some(resp.status_code),
           success |-> FALSE, error |-> Some(HttpError(resp.status_code)) ]

\* WebScraper.scrape_single_page (a pass-through) and scrape_website_page
FetchPage(e, url, resp) ==
    IF e = "workflow" THEN ScrapeUrl(url, resp)
    ELSE ScrapeWebsitePage(url, resp)

\* fetch(url) applied once to every answer of the proxy
AllResponses ==
    { HttpResponse(c, homepage_html) : c \in MinStatus..MaxStatus }
    \cup { TransportError("timeout") }

InitFetch ==
    /\ entry \in Entries
    /\ base_url \in BaseUrls
    /\ homepage_html = Html(Bulk(1), <<>>, <<>>, HomepageFiller)
    /\ hash_seed = 0
    /\ internal_links = <<>>
    /\ pc = "fetch"
    /\ max_pages = 0
    /\ filtered_emails = {}
    /\ JobIdle

Fetch ==
    /\ pc = "fetch"
    /\ \E resp \in AllResponses :
           /\ requests' = <<[url |-> base_url, response |-> resp]>>
           /\ scraped_pages' =
                  <<[key |-> base_url, page |-> FetchPage(entry, base_url, resp)]>>
    /\ pc' = "fetched"
    /\ UNCHANGED <<entry, base_url, homepage_html, hash_seed, internal_links,
                   max_pages, pages_scraped, link_index, calls,
                   workflow_result, combined_content, extracted_data,
                   scrape_jobs, filtered_emails,
                   llm_reply, validation, prompt, hookVars>>

NextFetch == Fetch

SpecFetch == InitFetch /\ [][NextFetch]_vars

\* the contract of a fetch result against the proxy's answer, success being
\* decided by Ok(status code)
FetchContract(Ok(_)) ==
    \A i \in 1..Len(scraped_pages) :
        LET resp == requests[i].response
            page == scraped_pages[i].page
        IN  IF resp.kind = "response" /\ Ok(resp.status_code)
            THEN /\ page.success
                 /\ page.html = Some(resp.body)
            ELSE /\ ~page.success
                 /\ page.html = None
                 /\ page.error =
                        Some(IF resp.kind = "response"
                             THEN HttpError(resp.status_code)
                             ELSE ExceptionText(resp.exc))

Is2xx(c) == c \in 200..299
Is200(c) == c = 200

---------------------------------------------------------------------------
(* The jobs: ScrapeWorkflow.run with WebScraper.scrape_website, and         *)
(* scrapetest.main with scrape_company_website.  One action is one fetch   *)
(* or one step of the pipeline; pc is the position of the job.             *)

\* max_pages: main's argument and the default of scrape_company_website
MainMaxPages == 4
DefaultMaxPages == 8

\* the markup the site serves at an internal URL: visible text around the
\* per-page cap of the aggregator
InternalPage(url) ==
    LET name == url[Len(url)]
    IN  Html(<<>>, <<>>, <<>>,
             CASE name = "about"    -> 5 * PageCap
               [] name = "services" -> PageCap + 1
               [] name = "products" -> PageCap
               [] name = "team"     -> PageCap - 1
               [] OTHER             -> 2 * PageCap)

BodyOf(url) == IF url = base_url THEN homepage_html ELSE InternalPage(url)

JobHomepages == { Html(Bulk(n), <<>>, <<>>, HomepageFiller) : n \in 0..MaxBulk }

HomeResponses ==
    { HttpResponse(c, homepage_html) : c \in {200, 204, 500} }
    \cup { TransportError("timeout") }

FailedResponse(resp) == resp.kind = "exception" \/ resp.status_code # 200

FailedFetches ==
    Cardinality({i \in 1..Len(requests) : FailedResponse(requests[i].response)})

\* the answers of the proxy to the request for an internal page
PageResponses(url) ==
    { HttpResponse(200, BodyOf(url)) }
    \cup (IF FailedFetches < MaxFailures
          THEN { HttpResponse(404, BodyOf(url)), TransportError("timeout") }
          ELSE {})

\* the replies of the chat completion
GoodReply ==
    [ company_snapshot |->
          Section([company_name |-> <<"Acme">>, founded |-> <<"Not available">>]),
      mission_vision_values |-> Section([mission |-> <<"tools">>]) ]
SparseReply ==
    [ company_snapshot |->
          Section([company_name |-> <<"Not available">>, founded |-> <<>>]),
      mission_vision_values |-> Section([mission |-> <<"Not found">>]) ]
MissingSectionReply ==
    [ company_snapshot |-> Section([company_name |-> <<"Acme">>]) ]

LlmOutcomes ==
    { LlmRaises,
      LlmReply("object", GoodReply, {}),
      LlmReply("object", SparseReply, {}),
      LlmReply("object", MissingSectionReply, {}),
      LlmReply("array", NoFields, {}),
      LlmReply("invalid", NoFields, {}),
      LlmReply("invalid", NoFields, {"company_name", "founded"}) }

Request(url, resp) == [url |-> url, response |-> resp]

\* `if pages_scraped > max_pages` in place of >=
ReachedLimitOffByOne(scraped, limit) == scraped > limit

\* `if pages_scraped >= max_pages: break` of scrape_company_website
ReachedLimit(scraped, limit) == scraped >= limit

Init ==
    /\ entry \in Entries
    /\ base_url \in BaseUrls
    /\ homepage_html \in JobHomepages
    /\ hash_seed \in 0..MaxSeed
    /\ max_pages \in (IF entry = "scrapetest"
                      THEN {MainMaxPages, DefaultMaxPages} ELSE {0})
    /\ internal_links = <<>>
    /\ pc = "start"
    /\ filtered_emails = {}
    /\ JobIdle

\* run, lines 48-62, and scrape_website, lines 86-104: the homepage fetch,
\* the return of a failed job, link discovery
RunScrapeHomepage ==
    /\ entry = "workflow" /\ pc = "start"
    /\ \E resp \in HomeResponses, parser_raises \in BOOLEAN :
        LET page     == ScrapeUrl(base_url, resp)
            scraping == [InitialResult EXCEPT !.status = "scraping"]
        IN  /\ requests' = Append(requests, Request(base_url, resp))
            /\ scraped_pages' = DictSet(scraped_pages, <<"homepage">>, page)
            /\ IF ~page.success
               THEN /\ ~parser_raises
                    /\ workflow_result' =
                           OnScrapingFailed(scraping, page.error[1])
                    /\ pc' = "returned"
                    /\ UNCHANGED <<internal_links, link_index, prompt, hookVars>>
               ELSE IF parser_raises
               THEN /\ workflow_result' = OnException(scraping, "RecursionError")
                    /\ pc' = "returned"
                    /\ UNCHANGED <<internal_links, link_index, prompt, hookVars>>
               ELSE /\ workflow_result' = scraping
                    /\ internal_links' =
                           DiscoverInternalLinks(entry, page.html[1], base_url,
                                                 hash_seed)
                    /\ link_index' = 1
                    /\ pc' = "crawl"
    /\ UNCHANGED <<entry, base_url, homepage_html, hash_seed, max_pages,
                   pages_scraped, calls, combined_content, extracted_data,
                   scrape_jobs, filtered_emails,
                   llm_reply, validation, prompt, hookVars>>

\* one turn of the loop of scrape_website, lines 108-110
RunScrapePage ==
    /\ entry = "workflow" /\ pc = "crawl"
    /\ link_index <= Len(internal_links)
    /\ LET link == internal_links[link_index]
       IN  \E resp \in PageResponses(link) :
               /\ requests' = Append(requests, Request(link, resp))
               /\ scraped_pages' = DictSet(scraped_pages, PageKey(link_index),
                                           ScrapeUrl(link, resp))
    /\ link_index' = link_index + 1
    /\ UNCHANGED <<entry, base_url, homepage_html, hash_seed, internal_links,
                   pc, max_pages, pages_scraped, calls, workflow_result,
                   combined_content, extracted_data, scrape_jobs,
                   filtered_emails,
                   llm_reply, validation, prompt, hookVars>>

\* the return of scrape_website, lines 112-126, and run, lines 56-83: the
\* cleaning step
RunClean ==
    /\ entry = "workflow" /\ pc = "crawl"
    /\ link_index > Len(internal_links)
    /\ \E cleaner_raises \in BOOLEAN :
        LET successful_pages ==
                Cardinality({i \in 1..Len(scraped_pages) :
                                 scraped_pages[i].page.success})
            cleaning == [workflow_result EXCEPT
                             !.status = "cleaning",
                             !.pages_scraped = Some(Keys(scraped_pages))]
        IN  IF successful_pages = 0
            THEN /\ ~cleaner_raises
                 /\ workflow_result' =
                        OnScrapingFailed(workflow_result,
                                         ExceptionText("Scraping failed"))
                 /\ pc' = "returned"
                 /\ UNCHANGED <<calls, combined_content, prompt, hookVars>>
            ELSE /\ calls' = Append(calls, "combine_page_content")
                 /\ IF cleaner_raises
                    THEN /\ workflow_result' =
                                OnException(cleaning, "RecursionError")
                         /\ pc' = "returned"
                         /\ UNCHANGED combined_content
                    ELSE /\ combined_content' =
                                CombinePageContentWS(scraped_pages)
                         /\ workflow_result' =
                                [cleaning EXCEPT !.status = "extracting"]
                         /\ pc' = "extracting"
    /\ UNCHANGED <<entry, base_url, homepage_html, hash_seed, internal_links,
                   max_pages, scraped_pages, pages_scraped, link_index,
                   requests, extracted_data, scrape_jobs, filtered_emails,
                   llm_reply, validation, prompt, hookVars>>

\* an extraction step that calls the chat completion again when the first
\* reply did not validate
ExtractCallsRetry ==
    <<"chat_completion", "chat_completion", "validate_extraction">>

\* the collaborator calls of the extraction step of run, lines 87-90
ExtractCalls == <<"chat_completion", "validate_extraction">>

\* run, lines 87-98: extraction and validation
RunExtract ==
    /\ entry = "workflow" /\ pc = "extracting"
    /\ \E llm \in LlmOutcomes :
        LET data    == ExtractCompanyData(combined_content, llm)
            verdict == ValidateExtraction(data)
        IN  /\ calls' = calls \o ExtractCalls
            /\ llm_reply' = llm
            /\ validation' = verdict
            /\ extracted_data' = data
            /\ IF verdict.raised
               THEN /\ workflow_result' =
                           OnException(workflow_result, verdict.message)
                    /\ pc' = "returned"
               ELSE /\ workflow_result' =
                           [workflow_result EXCEPT
                                !.extracted_data = Some(data),
                                !.extraction_valid = Some(verdict.is_valid),
                                !.validation_message = Some(verdict.message),
                                !.status = "saving"]
                    /\ pc' = "saving"
    /\ prompt' = PromptContent(entry, combined_content)
    /\ UNCHANGED <<entry, base_url, homepage_html, hash_seed, internal_links,
                   max_pages, scraped_pages, pages_scraped, link_index,
                   requests, combined_content, scrape_jobs, filtered_emails,
                   hookVars>>

\* run, lines 102-141: persistence and the completed result
RunSave ==
    /\ entry = "workflow" /\ pc = "saving"
    /\ \E db \in DbOutcomes :
        LET db_result == SaveToDatabase(JobId, scraped_pages, extracted_data, db)
        IN  /\ calls' = Append(calls, "_save_to_database")
            /\ scrape_jobs' = scrape_jobs \o db_result.inserted
            /\ workflow_result' = OnDatabaseResult(workflow_result, db_result)
    /\ pc' = "returned"
    /\ UNCHANGED <<entry, base_url, homepage_html, hash_seed, internal_links,
                   max_pages, scraped_pages, pages_scraped, link_index,
                   requests, combined_content, extracted_data,
                   filtered_emails,
                   llm_reply, validation, prompt, hookVars>>

\* scrape_company_website, lines 269-288: the homepage fetch, the return
\* to main when it failed, link discovery
MainScrapeHomepage ==
    /\ entry = "scrapetest" /\ pc = "start"
    /\ \E resp \in HomeResponses :
        LET homepage_result == ScrapeWebsitePage(base_url, resp)
        IN  /\ requests' = Append(requests, Request(base_url, resp))
            /\ scraped_pages' = DictSet(scraped_pages, base_url, homepage_result)
            /\ IF ~homepage_result.success
               THEN /\ pc' = "combine"
                    /\ UNCHANGED <<internal_links, link_index, pages_scraped, prompt, hookVars>>
               ELSE /\ internal_links' =
                           DiscoverInternalLinks(entry, homepage_result.html[1],
                                                 base_url, hash_seed)
                    /\ link_index' = 1
                    /\ pages_scraped' = 1
                    /\ pc' = "crawl"
    /\ UNCHANGED <<entry, base_url, homepage_html, hash_seed, max_pages, calls,
                   workflow_result, combined_content, extracted_data,
                   scrape_jobs, filtered_emails,
                   llm_reply, validation, prompt, hookVars>>

\* one turn of the loop of scrape_company_website, lines 290-298
MainScrapePage ==
    /\ entry = "scrapetest" /\ pc = "crawl"
    /\ link_index <= Len(internal_links)
    /\ ~ReachedLimit(pages_scraped, max_pages)
    /\ LET link == internal_links[link_index]
       IN  \E resp \in PageResponses(link) :
               /\ requests' = Append(requests, Request(link, resp))
               /\ scraped_pages' = DictSet(scraped_pages, link,
                                           ScrapeWebsitePage(link, resp))
    /\ pages_scraped' = pages_scraped + 1
    /\ link_index' = link_index + 1
    /\ UNCHANGED <<entry, base_url, homepage_html, hash_seed, internal_links,
                   pc, max_pages, calls, workflow_result, combined_content,
                   extracted_data, scrape_jobs, filtered_emails,
                   llm_reply, validation, prompt, hookVars>>

\* main, lines 770-792: the crawl has returned (links exhausted, the limit
\* reached, or the homepage failed); the pages are combined
MainCombine ==
    /\ entry = "scrapetest"
    /\ \/ pc = "combine"
       \/ /\ pc = "crawl"
          /\ \/ link_index > Len(internal_links)
             \/ ReachedLimit(pages_scraped, max_pages)
    /\ combined_content' = CombinePageContentST(scraped_pages, hash_seed)
    /\ calls' = Append(calls, "combine_page_content")
    /\ pc' = "extract"
    /\ UNCHANGED <<entry, base_url, homepage_html, hash_seed, internal_links,
                   max_pages, scraped_pages, pages_scraped, link_index,
                   requests, workflow_result, extracted_data, scrape_jobs,
                   filtered_emails,
                   llm_reply, validation, prompt, hookVars>>

\* main, lines 798-802: extract_company_data_with_gpt
MainExtract ==
    /\ entry = "scrapetest" /\ pc = "extract"
    /\ \E llm \in LlmOutcomes :
           /\ llm_reply' = llm
           /\ extracted_data' =
                  ExtractCompanyDataWithGpt(combined_content, llm, hash_seed)
    /\ calls' = Append(calls, "chat_completion")
    /\ pc' = "save"
    /\ prompt' = PromptContent(entry, combined_content)
    /\ UNCHANGED <<entry, base_url, homepage_html, hash_seed, internal_links,
                   max_pages, scraped_pages, pages_scraped, link_index,
                   requests, workflow_result, combined_content, scrape_jobs,
                   filtered_emails, validation, hookVars>>

\* main, lines 809-832: save_results and the summary
MainSaveResults ==
    /\ entry = "scrapetest" /\ pc = "save"
    /\ calls' = Append(calls, "save_results")
    /\ pc' = "done"
    /\ UNCHANGED <<entry, base_url, homepage_html, hash_seed, internal_links,
                   max_pages, scraped_pages, pages_scraped, link_index,
                   requests, workflow_result, combined_content, extracted_data,
                   scrape_jobs, filtered_emails,
                   llm_reply, validation, prompt, hookVars>>

Next ==
    \/ RunScrapeHomepage
    \/ RunScrapePage
    \/ RunClean
    \/ RunExtract
    \/ RunSave
    \/ MainScrapeHomepage
    \/ MainScrapePage
    \/ MainCombine
    \/ MainExtract
    \/ MainSaveResults

Spec == Init /\ [][Next]_vars

HomeKey == IF entry = "workflow" THEN <<"homepage">> ELSE base_url

\* the result of a request, as the entry point's fetch returned it
ResultOf(i) == FetchPage(entry, requests[i].url, requests[i].response)

HomepageFailed == requests # <<>> /\ ~ResultOf(1).success

Returned == pc \in {"returned", "done"}

\* C1: when the homepage fetch returns ok=false, the job ends as failed, no
\* internal page is fetched and the chat completion is never invoked, in
\* ScrapeWorkflow.run and in scrapetest's main alike
C1_HomepageFailureAborts ==
    (pc # "start" /\ HomepageFailed) =>
        /\ Len(requests) = 1
        /\ \A i \in 1..Len(calls) : calls[i] # "chat_completion"
        /\ Returned => workflow_result.status = "failed"

\* C2: ScrapeWorkflow.run returns a result whose status is 'completed' or
\* 'failed', never an intermediate one, with an 'error' whenever it is
\* 'failed', whichever collaborator failed or raised; before it returns
\* the run is at one of its steps, and no step leaves it elsewhere
C2_TerminalStatus ==
    entry = "workflow" =>
        IF pc = "returned"
        THEN /\ workflow_result.status \in {"completed", "failed"}
             /\ workflow_result.status = "failed" =>
                    workflow_result.error # None
             /\ workflow_result.status = "completed" =>
                    workflow_result.success
        ELSE pc \in {"start", "crawl", "extracting", "saving"}

\* the chat completion answered with a JSON array, validate_extraction
\* raised on it, and run returned the failed result
C2_Witness ==
    /\ entry = "workflow" /\ pc = "returned"
    /\ extracted_data = ListData
    /\ workflow_result.status = "failed"
    /\ workflow_result.error =
           Some(WorkflowError("", ExceptionText("AttributeError")))

EntriesWithin(limit) ==
    /\ scraped_pages[1].key = HomeKey
    /\ Cardinality({i \in 1..Len(scraped_pages) :
                        scraped_pages[i].key = HomeKey}) = 1
    /\ Len(scraped_pages) <= limit

\* C5 as claimed: the CrawlSet holds exactly one homepage entry, the first,
\* and at most N-1 internal entries, N the page cap (default 8), in both
\* crawl entry points
C5_AtMostPageCapEntries ==
    pc # "start" =>
        EntriesWithin(IF entry = "scrapetest" THEN max_pages
                      ELSE DefaultMaxPages)

\* C5 amended: the CrawlSet holds exactly one homepage entry, the first; in
\* scrape_company_website it holds at most max_pages entries; in
\* WebScraper.scrape_website, which has no page cap, it holds one entry per
\* discovered link besides, at most 10 + 1
C5_EntriesBounded ==
    pc # "start" =>
        /\ EntriesWithin(IF entry = "scrapetest" THEN max_pages
                         ELSE LinkLimitWS + 1)
        /\ (entry = "workflow" /\ pc # "crawl" /\ ~HomepageFailed
              /\ workflow_result.error = None) =>
               Len(scraped_pages) = 1 + Len(internal_links)

\* a crawl of WebScraper over ten discovered links: eleven entries
C5_Witness ==
    /\ entry = "workflow" /\ pc = "extracting"
    /\ Len(internal_links) = LinkLimitWS
    /\ Len(scraped_pages) = LinkLimitWS + 1

\* the key of the entry of the i-th request
KeyOf(i) ==
    IF entry = "scrapetest" THEN requests[i].url
    ELSE IF i = 1 THEN <<"homepage">> ELSE PageKey(i - 1)

\* the internal pages the crawl fetches when none of them fails
PagesToFetch ==
    IF entry = "workflow" \/ Len(internal_links) < max_pages - 1
    THEN Len(internal_links) ELSE max_pages - 1

InjectedFault ==
    workflow_result.error = Some(WorkflowError("", ExceptionText("RecursionError")))

\* C7: a failed internal-page fetch never aborts the job: it is recorded
\* under the page's own entry (ok=false, its error, no markup), the
\* remaining discovered pages are fetched as they are without the failure,
\* and aggregation and extraction go on with the pages that succeeded
C7_FailedPageDoesNotAbort ==
    /\ \A i \in 2..Len(requests) :
           ~ResultOf(i).success =>
               \E j \in 1..Len(scraped_pages) :
                   /\ scraped_pages[j].key = KeyOf(i)
                   /\ scraped_pages[j].page = ResultOf(i)
                   /\ scraped_pages[j].page.error # None
                   /\ scraped_pages[j].page.html = None
    /\ (pc \notin {"start", "crawl"} /\ ~HomepageFailed /\ ~InjectedFault) =>
           /\ Len(requests) = 1 + PagesToFetch
           /\ \A i \in 2..Len(requests) :
                  requests[i].url = internal_links[i - 1]
           /\ calls # <<>> /\ calls[1] = "combine_page_content"
           /\ Len(combined_content.sections) =
                  Cardinality({j \in 1..Len(scraped_pages) :
                                   scraped_pages[j].page.success})
    /\ (Returned /\ ~HomepageFailed /\ ~InjectedFault) =>
           \E i \in 1..Len(calls) : calls[i] = "chat_completion"

\* an internal page failed, a later one was fetched and succeeded, and the
\* job went through extraction
C7_Witness ==
    /\ Returned
    /\ \E i, j \in 2..Len(requests) :
           i < j /\ ~ResultOf(i).success /\ ResultOf(j).success
    /\ \E i \in 1..Len(calls) : calls[i] = "chat_completion"

\* C8: within one job no URL is requested more than once, whether its fetch
\* succeeded or failed
C8_NoUrlRequestedTwice ==
    \A i, j \in 1..Len(requests) :
        requests[i].url = requests[j].url => i = j

\* C9: a page never contributes more than the per-page cap of 2000
\* characters of its cleaned text to the aggregate, in
\* scrapetest.combine_page_content and in HTMLCleaner.combine_page_content
C9_PageCapped ==
    \A i \in 1..Len(combined_content.sections) :
        Chars(combined_content.sections[i].text) <= PageCap

---------------------------------------------------------------------------
(* extract_emails_from_html applied to markups with addresses in each of   *)
(* its three layers: mailto hrefs, the footer, the rest of the page.       *)

Address(local, domain, tld) == local \o <<"@", domain, ".", tld>>

EmailWords ==
    { Address(<<"info">>, "acme", "com"),
      Address(<<"NoReply">>, "acme", "com"),
      Address(<<"no", "-", "reply">>, "acme", "com"),
      Address(<<"sales">>, "example", "org"),
      Address(<<"Info">>, "Example", "com"),
      Address(<<"support">>, "Example", "org"),
      <<"hello">> }

MailtoHrefs ==
    { <<"mailto", ":">> \o w : w \in EmailWords }
    \cup { <<"mailto", ":">> \o Address(<<"jane">>, "acme", "com")
               \o <<"?", "subject", "=", "hi">>,
           <<"mailto", ":">>,
           <<"/", "contact">> }

EmailMarkups ==
    { Html(anchors, contact_text, body_text, 0) :
          anchors \in SeqsUpTo(MailtoHrefs, MaxWords),
          contact_text \in SeqsUpTo(EmailWords, MaxWords),
          body_text \in SeqsUpTo(EmailWords, 1) }

InitEmails ==
    /\ entry = "scrapetest"
    /\ base_url = BaseHome
    /\ homepage_html \in EmailMarkups
    /\ hash_seed = 0
    /\ internal_links = <<>>
    /\ pc = "emails"
    /\ max_pages = 0
    /\ filtered_emails = {}
    /\ JobIdle

ExtractEmails ==
    /\ pc = "emails"
    /\ filtered_emails' = ExtractEmailsFromHtml(Some(homepage_html))
    /\ pc' = "extracted"
    /\ UNCHANGED <<entry, base_url, homepage_html, hash_seed, internal_links,
                   jobVars, llm_reply, validation, hookVars>>

NextEmails == ExtractEmails

SpecEmails == InitEmails /\ [][NextEmails]_vars

NoneContains(patterns) ==
    \A email \in filtered_emails :
        \A pattern \in patterns : ~Contains(Lower(email), pattern)

\* C10 as claimed: no email of the output contains an exclusion substring,
\* '@example' among them, whichever layer found it and whatever its letter
\* case in the markup
C10_NoExclusionSubstring ==
    pc = "extracted" => NoneContains(ExcludePatterns \cup {<<"@", "example">>})

\* C10 amended: no email of the output contains, in any letter case, one of
\* example.com, test.com, domain.com, yoursite.com, noreply, no-reply,
\* donotreply, support@example, admin@example, info@example,
\* contact@example; '@example' alone excludes nothing
C10_NoListedSubstring ==
    pc = "extracted" =>
        /\ NoneContains(ExcludePatterns)
        /\ \A email \in filtered_emails : email = Lower(email)

\* a footer with NoReply@acme.com beside a page with info@acme.com: the
\* first is dropped, the second is output
C10_Witness ==
    /\ pc = "extracted"
    /\ Address(<<"NoReply">>, "acme", "com") \in Range(homepage_html.contact_text)
    /\ Address(<<"info">>, "acme", "com") \in Range(homepage_html.body_text)
    /\ filtered_emails = {Address(<<"info">>, "acme", "com")}

---------------------------------------------------------------------------
(* validate_extraction applied to every profile drawn: profiles of the     *)
(* template's sections with n leaves of which some are filled, the same    *)
(* with the failure flag or without a mandatory section, and the absent    *)
(* profiles.                                                               *)

\* the most leaves a profile drawn holds
MaxLeaves == 20

\* sections and fields of the extraction template, the mandatory sections
\* first
TemplateLeaves ==
    << <<"company_snapshot", "founded">>,
       <<"mission_vision_values", "mission_statement">>,
       <<"company_snapshot", "headquarters">>,
       <<"mission_vision_values", "vision_statement">>,
       <<"company_snapshot", "legal_structure">>,
       <<"mission_vision_values", "core_values">>,
       <<"company_snapshot", "number_of_employees">>,
       <<"company_snapshot", "annual_revenue_funding">>,
       <<"company_snapshot", "website">>,
       <<"company_snapshot", "industries_sectors">>,
       <<"cover_page", "company_name">>,
       <<"cover_page", "tagline_slogan">>,
       <<"cover_page", "logo_url">>,
       <<"cover_page", "date_of_issue">>,
       <<"history_milestones", "key_milestones">>,
       <<"history_milestones", "founding_story">>,
       <<"history_milestones", "major_achievements">>,
       <<"leadership_governance", "executive_team">>,
       <<"leadership_governance", "board_directors_advisors">>,
       <<"leadership_governance", "founders">>,
       <<"products_solutions", "product_portfolio">>,
       <<"products_solutions", "launch_years">>,
       <<"products_solutions", "key_features">>,
       <<"products_solutions", "pricing_models">> >>

\* the values of a leaf that is not filled: null, and the two placeholders
BlankValues == { <<>>, <<"Not available">>, <<"Not found">> }

\* a profile with the first n leaves of the template, those of `filled`
\* holding a value and the others `blank`; both mandatory sections are
\* keys of it even when they hold no leaf
ProfileTop(n, filled, blank) ==
    LET secs == RequiredSections \cup {TemplateLeaves[i][1] : i \in 1..n}
        ValueAt(i) == IF i \in filled THEN <<"Acme">> ELSE blank
        FieldsOf(sec) ==
            LET idx == {i \in 1..n : TemplateLeaves[i][1] = sec}
            IN  [f \in {TemplateLeaves[i][2] : i \in idx} |->
                    ValueAt(CHOOSE i \in idx : TemplateLeaves[i][2] = f)]
    IN  [sec \in secs |-> Section(FieldsOf(sec))]

\* del d[k]
Drop(d, k) == [x \in DOMAIN d \ {k} |-> d[x]]

\* the placeholders as a model writes them in another letter case
PlaceholderVariants == { <<"not available">>, <<"NOT FOUND">> }

Profiles ==
    UNION { { ProfileTop(n, filled, blank) :
                  blank \in BlankValues \cup PlaceholderVariants,
                  filled \in UNION { {1..k, (n - k + 1)..n} : k \in 0..n } } :
            n \in 0..MaxLeaves }

ValidateInputs ==
    { NoneData, DictData(NoFields), ListData }
    \cup { DictData(top) : top \in Profiles }
    \cup { DictData(Put(top, "extraction_failed", Scalar(<<"True">>))) :
               top \in Profiles }
    \cup { DictData(Drop(top, sec)) :
               top \in Profiles, sec \in RequiredSections }

InitValidate ==
    /\ entry = "workflow"
    /\ base_url = BaseHome
    /\ homepage_html = Html(<<>>, <<>>, <<>>, 0)
    /\ hash_seed = 0
    /\ internal_links = <<>>
    /\ pc = "validate"
    /\ max_pages = 0
    /\ filtered_emails = {}
    /\ scraped_pages = <<>>
    /\ pages_scraped = 0
    /\ link_index = 0
    /\ requests = <<>>
    /\ calls = <<>>
    /\ workflow_result = NoResult
    /\ combined_content = EmptyContent
    /\ scrape_jobs = <<>>
    /\ llm_reply = NoCall
    /\ validation = NoVerdict
    /\ prompt = <<>>
    /\ HookIdle
    /\ extracted_data \in ValidateInputs

Validate ==
    /\ pc = "validate"
    /\ validation' = ValidateExtraction(extracted_data)
    /\ pc' = "validated"
    /\ UNCHANGED <<entry, base_url, homepage_html, hash_seed, internal_links,
                   jobVars, filtered_emails, llm_reply, hookVars>>

NextValidate == Validate

SpecValidate == InitValidate /\ [][NextValidate]_vars

\* the leaves of the profile and those of them that are filled, counted on
\* the profile itself
AllLeaves ==
    UNION { { <<sec, f>> : f \in DOMAIN extracted_data.top[sec].fields } :
                sec \in DOMAIN extracted_data.top }

FilledLeaves ==
    { k \in AllLeaves :
          extracted_data.top[k[1]].fields[k[2]] \notin BlankValues }

FailureFlag ==
    /\ "extraction_failed" \in DOMAIN extracted_data.top
    /\ extracted_data.top["extraction_failed"] = Scalar(<<"True">>)

Absent ==
    \/ extracted_data.type = "none"
    \/ extracted_data.type = "dict" /\ DOMAIN extracted_data.top = {}

MissingMandatory ==
    /\ extracted_data.type = "dict"
    /\ \E sec \in {"company_snapshot", "mission_vision_values"} :
           sec \notin DOMAIN extracted_data.top

\* C11: for a present profile without the failure flag and with both
\* mandatory sections, validate_extraction returns is_valid = TRUE exactly
\* when at least 10% of the leaf values are filled: 1 of 20 is invalid,
\* 2 of 20 and 3 of 20 are valid
C11_ValidFromTenPercent ==
    (/\ pc = "validated"
     /\ extracted_data.type = "dict"
     /\ ~Absent /\ ~FailureFlag /\ ~MissingMandatory) =>
        LET all    == Cardinality(AllLeaves)
            filled == Cardinality(FilledLeaves)
        IN  /\ ~validation.raised
            /\ validation.is_valid <=> (all > 0 /\ 10 * filled >= all)
            /\ (all = 20 /\ filled = 1) => ~validation.is_valid
            /\ (all = 20 /\ filled \in {2, 3}) => validation.is_valid

\* exactly 2 of 20 leaves filled, and the profile is valid
C11_Witness ==
    /\ pc = "validated"
    /\ extracted_data.type = "dict"
    /\ ~FailureFlag /\ ~MissingMandatory
    /\ Cardinality(AllLeaves) = 20
    /\ Cardinality(FilledLeaves) = 2
    /\ validation.is_valid

\* a leaf value that is empty or a "not available" / "not found"
\* placeholder in any letter case
Unfilled(value) ==
    \/ value = <<>>
    \/ Lower(value) \in { <<"not available">>, <<"not found">> }

\* C21: when validate_extraction computes the completion rate, its
\* denominator is the number of all leaf values of all sections, its
\* numerator is the number of leaf values that are non-empty and no
\* "not available" / "not found" placeholder in any letter case, and the
\* rate is within [0,1]
C21_CompletionRate ==
    (/\ pc = "validated"
     /\ validation.message \in {"Low completion rate", "Extraction valid"}) =>
        /\ validation.total = Cardinality(AllLeaves)
        /\ validation.available =
               Cardinality({ k \in AllLeaves :
                   ~Unfilled(extracted_data.top[k[1]].fields[k[2]]) })
        /\ 0 <= validation.available
        /\ validation.available <= validation.total

\* C12: validate_extraction returns is_valid = FALSE, whatever the
\* completion rate, for an absent profile (None, empty), for a profile with
\* the failure flag and for a profile without company_snapshot or without
\* mission_vision_values
C12_InvalidWithoutProfile ==
    (pc = "validated" /\ (Absent \/ FailureFlag \/ MissingMandatory)) =>
        /\ ~validation.raised
        /\ ~validation.is_valid

\* every leaf filled: invalid with the failure flag, and invalid with only
\* mission_vision_values missing
C12_Witness ==
    /\ pc = "validated"
    /\ ~validation.is_valid
    /\ Cardinality(AllLeaves) >= 10
    /\ FilledLeaves = AllLeaves
    /\ \/ FailureFlag /\ ~MissingMandatory
       \/ ~FailureFlag /\ DOMAIN extracted_data.top
                              \cap {"company_snapshot", "mission_vision_values"}
                           = {"company_snapshot"}

---------------------------------------------------------------------------
(* The extractors applied to the aggregates and the replies drawn:         *)
(* ScraperAgent.extract_company_data for the workflow and                  *)
(* extract_company_data_with_gpt for scrapetest.                           *)

\* load_extraction_template(): the fields of every section
ExtractionTemplate ==
    [ cover_page |->
          {"company_name", "tagline_slogan", "logo_url", "date_of_issue"},
      company_snapshot |->
          {"founded", "headquarters", "legal_structure",
           "number_of_employees", "annual_revenue_funding", "website",
           "industries_sectors"},
      mission_vision_values |->
          {"mission_statement", "vision_statement", "core_values"},
      history_milestones |->
          {"key_milestones", "founding_story", "major_achievements"},
      leadership_governance |->
          {"executive_team", "board_directors_advisors", "founders"},
      products_solutions |->
          {"product_portfolio", "launch_years", "key_features",
           "pricing_models", "product_roadmap"},
      services |->
          {"service_offerings", "methodology_delivery", "engagement_models",
           "pricing_structure", "success_metrics"},
      markets_customers |->
          {"target_segments", "geographical_markets", "key_clients",
           "testimonials_case_studies"},
      value_proposition |->
          {"unique_selling_points", "competitive_differentiators",
           "proof_points"},
      operating_locations |->
          {"countries_of_operation", "offices_facilities",
           "remote_work_policy"},
      key_metrics_performance |->
          {"growth_metrics", "market_share", "customer_satisfaction",
           "retention_churn", "other_kpis"},
      financial_highlights |->
          {"revenue_trends", "profitability", "funding_rounds", "investors"},
      certifications_compliance |->
          {"standards_certifications", "regulatory_approvals",
           "security_privacy"},
      partnerships_alliances |->
          {"technology_partners", "channel_partners", "strategic_alliances"},
      awards_recognition |->
          {"industry_awards", "recognition", "rankings"},
      csr_sustainability |->
          {"environmental_initiatives", "social_impact", "esg_governance"},
      technology_innovation |->
          {"rd_focus", "patents_ip", "technology_stack",
           "innovation_programs"},
      risk_management |->
          {"key_risks", "governance_framework", "compliance_programs"},
      media_public_relations |->
          {"press_releases", "media_coverage", "thought_leadership"},
      culture_career |->
          {"employer_value_proposition", "diversity_inclusion",
           "learning_development", "open_positions"},
      contact_information |->
          {"registered_address", "phone_numbers", "email_addresses",
           "social_media_handles", "investor_media_contacts"} ]

\* a reply with exactly the template's sections and fields, every leaf
\* holding `value`
TemplateReply(value) ==
    [sec \in DOMAIN ExtractionTemplate |->
        Section([f \in ExtractionTemplate[sec] |-> value])]

\* the lines of visible text a homepage drawn can hold: an email, a phone
\* number, a linkedin URL, a client mention and a postal address
ContactLines ==
    << <<"info", "@", "acme", ".", "com">>,
       <<"555", "-", "010", "-", "0199">>,
       <<"linkedin", ".", "com", "/", "company", "/", "acme">>,
       <<"Trusted", " ", "by", " ", "Globex", ".">>,
       <<"12", " ", "Main", " ", "Blvd", ",", " ", "Springfield", ",", " ",
         "IL", " ", "62704">> >>

\* the fields the fallback enrichment can set, and the values the model
\* gives them in the replies drawn
ContactFields ==
    { <<"contact_info", "email">>, <<"contact_info", "phone">>,
      <<"contact_info", "address">>, <<"contact_info", "social_media">>,
      <<"social_proof", "testimonials">>, <<"social_proof", "case_studies">> }

ModelValue(field) ==
    CASE field = "email"        -> <<"jane", "@", "acme", ".", "com">>
      [] field = "phone"        -> <<"555", ".", "010", ".", "0199">>
      [] field = "address"      -> <<"1 Model Way">>
      [] field = "social_media" -> <<"twitter", ".", "com", "/", "acme">>
      [] field = "testimonials" -> <<"model quote">>
      [] field = "case_studies" -> <<"model study">>

\* a reply whose contact_info and social_proof hold the model's value for
\* the fields of `given`; the other fields are null when `nulls`, else
\* they are no keys of the reply
ContactReply(given, nulls) ==
    LET FieldsOf(sec) ==
            [f \in {k[2] : k \in {x \in ContactFields :
                                      x[1] = sec /\ (nulls \/ x \in given)}} |->
                IF <<sec, f>> \in given THEN ModelValue(f) ELSE <<>>]
    IN  Put(Put(GoodReply, "contact_info", Section(FieldsOf("contact_info"))),
            "social_proof", Section(FieldsOf("social_proof")))

\* a reply whose section sec is no mapping: null (<<>>) or a string
NonMappingReply(sec, value) == Put(GoodReply, sec, Scalar(value))

LabelPatterns == {"company_name", "headquarters", "founded"}

ExtractReplies ==
    LlmOutcomes
    \cup { LlmReply("invalid", NoFields, labels) : labels \in SUBSET LabelPatterns }
    \cup { LlmReply("object", TemplateReply(value), {}) :
               value \in {<<>>, <<"Acme">>} }
    \cup { LlmReply("object", ContactReply(given, nulls), {}) :
               given \in SUBSET ContactFields, nulls \in BOOLEAN }
    \cup { Fenced(open, close,
                  LlmReply(json, IF json = "object" THEN GoodReply ELSE NoFields,
                           labels)) :
               open \in {"", "fence", "fence_json"}, close \in BOOLEAN,
               json \in {"object", "invalid"},
               labels \in {{}, {"headquarters"}} }
    \cup { LlmReply("object", NonMappingReply(sec, value), {}) :
               sec \in {"contact_info", "social_proof"},
               value \in {<<>>, <<"none given">>} }

\* the characters of further visible text of the pages of these jobs
ExtractFiller == 10

\* further lines of a homepage: addresses that extract_emails_from_html
\* excludes, some of them with a business prefix, one a no-reply address
OtherEmailLines ==
    { <<>>,
      << <<"jane", "@", "yoursite", ".", "com">>,
         <<"Info", "@", "Example", ".", "org">>,
         <<"sales", "@", "domain", ".", "com">> >>,
      << <<"jane", "@", "yoursite", ".", "com">>,
         <<"NoReply", "@", "domain", ".", "com">> >>,
      << <<"NoReply", "@", "domain", ".", "com">> >> }

\* the CrawlSet of a job whose homepage shows the lines of ContactLines
\* chosen by `lines` and then the lines `extra`, with a testimonials page
\* when `more`
ExtractPages(e, lines, more, extra) ==
    LET shown == Flatten([i \in 1..Len(ContactLines) |->
                             IF i \in lines THEN <<ContactLines[i]>> ELSE <<>>])
                 \o extra
        home  == Html(<<>>, <<>>, shown, ExtractFiller)
        url   == BaseHome \o <<"/", "testimonials">>
        other == Html(<<>>, <<>>, <<>>, ExtractFiller)
        First == DictSet(<<>>,
                         IF e = "workflow" THEN <<"homepage">> ELSE BaseHome,
                         FetchPage(e, BaseHome, HttpResponse(200, home)))
    IN  IF more
        THEN DictSet(First, IF e = "workflow" THEN PageKey(1) ELSE url,
                     FetchPage(e, url, HttpResponse(200, other)))
        ELSE First

InitExtract ==
    /\ entry \in Entries
    /\ base_url = BaseHome
    /\ homepage_html = Html(<<>>, <<>>, <<>>, 0)
    /\ hash_seed \in 0..MaxSeed
    /\ internal_links = <<>>
    /\ pc = "extract"
    /\ max_pages = 0
    /\ filtered_emails = {}
    /\ \E lines \in SUBSET (1..Len(ContactLines)), more \in BOOLEAN,
          extra \in OtherEmailLines :
           scraped_pages = ExtractPages(entry, lines, more, extra)
    /\ pages_scraped = 0
    /\ link_index = 0
    /\ requests = <<>>
    /\ calls = <<>>
    /\ workflow_result = NoResult
    /\ combined_content =
           IF entry = "workflow" THEN CombinePageContentWS(scraped_pages)
           ELSE CombinePageContentST(scraped_pages, hash_seed)
    /\ extracted_data = NoneData
    /\ scrape_jobs = <<>>
    /\ llm_reply = NoCall
    /\ validation = NoVerdict
    /\ prompt = <<>>
    /\ HookIdle

\* extract_company_data(cleaned_content, base_url) in the workflow,
\* extract_company_data_with_gpt(combined_content, template) in scrapetest
Extract ==
    /\ pc = "extract"
    /\ \E llm \in ExtractReplies :
           /\ llm_reply' = llm
           /\ extracted_data' =
                  IF entry = "workflow"
                  THEN ExtractCompanyData(combined_content, llm)
                  ELSE ExtractCompanyDataWithGpt(combined_content, llm,
                                                 hash_seed)
    /\ calls' = Append(calls, "chat_completion")
    /\ pc' = "extracted"
    /\ prompt' = PromptContent(entry, combined_content)
    /\ UNCHANGED <<entry, base_url, homepage_html, hash_seed, internal_links,
                   max_pages, scraped_pages, pages_scraped, link_index,
                   requests, workflow_result, combined_content, scrape_jobs,
                   filtered_emails, validation, hookVars>>

NextExtract == Extract

SpecExtract == InitExtract /\ [][NextExtract]_vars

\* the value the parsed reply holds for a field, <<>> when it holds none
ReplyValue(k) == GetLeaf(GetSection(llm_reply.value, k[1]), k[2])

\* the value the returned profile holds for a field
ProfileValue(k) == GetLeaf(GetSection(extracted_data.top, k[1]), k[2])

GptReturnedProfile ==
    /\ pc = "extracted"
    /\ entry = "scrapetest"
    /\ extracted_data.type = "dict"

\* C13: for each of contact_info.email, phone, address, social_media and
\* social_proof.testimonials, case_studies: when the parsed reply holds a
\* non-empty value for the field, the returned profile holds that value,
\* whatever the searches find in the aggregate
C13_ModelValueKept ==
    GptReturnedProfile =>
        \A k \in ContactFields :
            ReplyValue(k) # <<>> => ProfileValue(k) = ReplyValue(k)

\* the aggregate holds another email, a phone number, an address, a
\* linkedin URL, a client mention and a testimonial indicator, the reply
\* holds the model's value for all six fields, and all six are returned
C13_Witness ==
    /\ GptReturnedProfile
    /\ FallbackEmail(combined_content, hash_seed) = ContactLines[1]
    /\ FallbackPhone(combined_content) = ContactLines[2]
    /\ FallbackSocialMedia(combined_content) # <<>>
    /\ FallbackCaseStudies(combined_content) # <<>>
    /\ FallbackAddress(combined_content) = ContactLines[5]
    /\ FallbackTestimonials(combined_content) # <<>>
    /\ \A k \in ContactFields :
           ProfileValue(k) = ModelValue(k[2]) /\ ReplyValue(k) = ModelValue(k[2])

TemplateShaped(top) ==
    /\ DOMAIN top = DOMAIN ExtractionTemplate
    /\ \A sec \in DOMAIN top :
           top[sec].isdict /\ DOMAIN top[sec].fields = ExtractionTemplate[sec]

\* C14: when the reply has exactly the template's shape, the profile
\* extract_company_data_with_gpt returns has the template's sections and
\* fields and no other
C14_TemplateShapeKept ==
    (/\ pc = "extracted"
     /\ entry = "scrapetest"
     /\ llm_reply.kind = "reply" /\ llm_reply.json = "object"
     /\ TemplateShaped(llm_reply.value)) =>
        /\ extracted_data.type = "dict"
        /\ TemplateShaped(extracted_data.top)

\* the record carries a mark of failure or of the degraded fallback
FlaggedRecord(data) ==
    /\ data.type = "dict"
    /\ \/ /\ "extraction_failed" \in DOMAIN data.top
          /\ Truthy(data.top["extraction_failed"])
       \/ /\ "extraction_method" \in DOMAIN data.top
          /\ data.top["extraction_method"] = Scalar(<<"text_fallback">>)

\* C15: when the reply is no valid JSON, the extractor returns None, a
\* failure record or a record flagged as the degraded fallback, whatever
\* number of the labeled-line patterns match the reply
C15_NonJsonIsFlagged ==
    (pc = "extracted" /\ llm_reply.kind = "reply" /\ llm_reply.json = "invalid") =>
        \/ extracted_data.type = "none"
        \/ FlaggedRecord(extracted_data)

---------------------------------------------------------------------------
(* Validation and persistence in ScrapeWorkflow.run, under Spec.           *)

\* how many times the job called a collaborator
CallCount(name) == Cardinality({i \in 1..Len(calls) : calls[i] = name})

\* validate_extraction returned False for a missing mandatory section or
\* for a completion rate below 10%
ValidationFailed ==
    /\ entry = "workflow"
    /\ ~validation.raised
    /\ validation.message \in {"Missing required section", "Low completion rate"}

\* C16: a validation failure never prevents persistence: when run has
\* returned, the insert was attempted exactly once with the extracted
\* profile, and the result records extraction_valid = False and the
\* validation message
C16_ValidationFailureStillPersists ==
    (Returned /\ ValidationFailed) =>
        /\ Len(scrape_jobs) = 1
        /\ scrape_jobs[1].row.extracted_data = extracted_data
        /\ workflow_result.extraction_valid = Some(FALSE)
        /\ workflow_result.validation_message = Some(validation.message)

\* the insert was reached and returned no data or raised
InsertFailed ==
    /\ entry = "workflow"
    /\ scrape_jobs # <<>>
    /\ scrape_jobs[Len(scrape_jobs)].outcome \in {"no_data", "raises"}

\* C17: when the insert returns no data or raises, run returns status
\* 'completed' with success = True, database_error holds the failure and
\* database_id is not set, the extracted profile of the result is the one
\* the extractor returned, and the extraction and the insert ran once
C17_InsertFailureIsReported ==
    (Returned /\ InsertFailed) =>
        /\ workflow_result.status = "completed"
        /\ workflow_result.success
        /\ workflow_result.database_error # None
        /\ workflow_result.database_id = None
        /\ workflow_result.extracted_data = Some(extracted_data)
        /\ extracted_data = ExtractCompanyData(combined_content, llm_reply)
        /\ CallCount("chat_completion") = 1
        /\ CallCount("_save_to_database") = 1
        /\ Len(scrape_jobs) = 1

\* a valid profile whose insert raised: the job is completed and the
\* error is reported
C17_Witness ==
    /\ Returned /\ InsertFailed
    /\ scrape_jobs[1].outcome = "raises"
    /\ validation.is_valid
    /\ workflow_result.status = "completed"
    /\ workflow_result.database_error = Some("insert raised")

---------------------------------------------------------------------------
(* Order and keyword filter of discover_internal_links, under SpecLinks.   *)

\* the kept links in the order of their first appearance in the markup
DiscoveryOrder == LinkSet(entry, homepage_html.anchors, base_url, <<>>)

\* C18: the list discover_internal_links returns keeps the order in which
\* the links first appear in the markup and holds the first K of them, so
\* the crawl loop, which takes the list in order, fetches the same pages
\* in the same order on every run
C18_DiscoveryOrderKept ==
    pc = "discovered" =>
        internal_links = Take(DiscoveryOrder, LinkLimit(entry))

PriorityPatterns(e) ==
    IF e = "workflow" THEN PriorityPatternsWS ELSE PriorityPatternsST

\* the lower-cased path of the URL contains a keyword of the list
HasKeyword(e, url) ==
    \E pattern \in PriorityPatterns(e) :
        Contains(Lower(UrlParse(url).path), pattern)

\* the href is none of the skipped kinds: empty, fragment, mailto, tel,
\* script
PageHref(href) ==
    /\ href # <<>>
    /\ \A p \in {<<"#">>, <<"mailto", ":">>, <<"tel", ":">>,
                 <<"javascript", ":">>} : ~StartsWith(href, p)

\* C19: every returned URL has a keyword in its lower-cased path, and a
\* link of the page to the host of base_url whose path holds a keyword is
\* missing from the result only when the result holds K links
C19_KeptIffKeyword ==
    pc = "discovered" =>
        /\ \A i \in 1..Len(internal_links) :
               HasKeyword(entry, internal_links[i])
        /\ \A i \in 1..Len(homepage_html.anchors) :
               LET Missing(full_url) ==
                       /\ Host(full_url) = Host(base_url)
                       /\ HasKeyword(entry, full_url)
                       /\ full_url \notin Range(internal_links)
               IN  (/\ PageHref(homepage_html.anchors[i])
                    /\ Missing(UrlJoin(base_url, homepage_html.anchors[i])))
                       => Len(internal_links) = LinkLimit(entry)

---------------------------------------------------------------------------
(* The order of the steps of a job, under Spec.                            *)

\* the place of a collaborator call in the pipeline
StepRank(name) ==
    CASE name = "combine_page_content" -> 1
      [] name = "chat_completion"      -> 2
      [] name = "validate_extraction"  -> 3
      [] OTHER                         -> 4

\* the calls made so far are in pipeline order, none of them twice; the
\* first request is the one for the homepage, and every later request is
\* for a link discovery returned
StepsInOrder ==
    /\ \A i, j \in 1..Len(calls) :
           i < j => StepRank(calls[i]) < StepRank(calls[j])
    /\ calls # <<>> => requests # <<>>
    /\ requests # <<>> => requests[1].url = base_url
    /\ \A i \in 2..Len(requests) : requests[i].url \in Range(internal_links)

\* a page is fetched only while no aggregation, extraction, validation or
\* persistence call has been made
FetchBeforeCalls == requests' # requests => calls' = <<>>

\* C20: in any job the chat completion is invoked at most once, after
\* every page fetch and the aggregation, validation and persistence come
\* after it, and the steps run in the order homepage fetch, link
\* discovery, internal fetches, aggregation, extraction, validation,
\* persistence with no step a second time
C20_StepsRunInOrder == [](StepsInOrder) /\ [][FetchBeforeCalls]_vars

\* a workflow job with internal pages that ran every step
C20_Witness ==
    /\ Returned
    /\ entry = "workflow"
    /\ Len(requests) >= 3
    /\ calls = << "combine_page_content", "chat_completion",
                  "validate_extraction", "_save_to_database" >>

---------------------------------------------------------------------------
(* combine_page_content applied to CrawlSets of one to three pages, each   *)
(* fetched or failed, with addresses and location lines in their markups.  *)

\* the most pages of a CrawlSet drawn, the further pages apart
MaxPages == 3

\* the further pages of a large CrawlSet and the characters of their text
PadPages == 9
PadFiller == 2500

LocationLine(keyword) == <<"our", " ", keyword, " ", "office">>

CombineMarkups ==
    { Html(<<>>, <<>>, <<>>, 0),
      Html(<< <<"mailto", ":", "info", "@", "acme", ".", "test">> >>,
           <<>>, <<>>, ExtractFiller),
      Html(<<>>, <<>>,
           << <<"sales", "@", "acme", ".", "com">>,
              <<"NoReply", "@", "acme", ".", "com">> >>, ExtractFiller),
      Html(<<>>, << <<"Info", "@", "acme", ".", "test">> >>,
           << <<"contact", "@", "acme", ".", "com">> >>, 0),
      Html(<<>>, <<>>,
           [n \in 1..6 |-> LocationLine(LocationKeywords[n])], PadFiller),
      Html(<<>>, <<>>,
           << <<"city">>,
              <<"city", "lorem95", " ", "road">>,
              <<"city", "lorem95", " ", "town">> >>, ExtractFiller) }

CombineUrls ==
    << BaseHome, BaseHome \o <<"/", "about">>, BaseHome \o <<"/", "contact">> >>

\* the answers of the proxy for one page: the markup, or a 404
CombineResponses ==
    { HttpResponse(200, m) : m \in CombineMarkups }
    \cup { HttpResponse(404, Html(<<>>, <<>>, <<>>, 0)) }

\* the URL of the n-th page of a CrawlSet
CombineUrl(n) ==
    IF n <= Len(CombineUrls) THEN CombineUrls[n]
    ELSE BaseHome \o <<"/", BulkKeywords[n], "/", "more">>

\* the CrawlSet of a job whose fetches were answered by resps
RECURSIVE CrawlSet(_, _)
CrawlSet(e, resps) ==
    IF resps = <<>> THEN <<>>
    ELSE DictSet(CrawlSet(e, SubSeq(resps, 1, Len(resps) - 1)),
                 IF e = "scrapetest" THEN CombineUrl(Len(resps))
                 ELSE IF Len(resps) = 1 THEN <<"homepage">>
                 ELSE PageKey(Len(resps) - 1),
                 FetchPage(e, CombineUrl(Len(resps)), resps[Len(resps)]))

\* `pad` further pages, each fetched with PadFiller characters of text
Padding(pad) ==
    [i \in 1..pad |-> HttpResponse(200, Html(<<>>, <<>>, <<>>, PadFiller))]

InitCombine ==
    /\ entry \in Entries
    /\ base_url = BaseHome
    /\ homepage_html = Html(<<>>, <<>>, <<>>, 0)
    /\ hash_seed \in 0..MaxSeed
    /\ internal_links = <<>>
    /\ pc = "combine"
    /\ max_pages = 0
    /\ filtered_emails = {}
    /\ \E n \in 1..MaxPages : \E resps \in [1..n -> CombineResponses] :
           \E pad \in {0, PadPages} :
               scraped_pages = CrawlSet(entry, resps \o Padding(pad))
    /\ pages_scraped = 0
    /\ link_index = 0
    /\ requests = <<>>
    /\ calls = <<>>
    /\ workflow_result = NoResult
    /\ combined_content = EmptyContent
    /\ extracted_data = NoneData
    /\ scrape_jobs = <<>>
    /\ llm_reply = NoCall
    /\ validation = NoVerdict
    /\ prompt = <<>>
    /\ HookIdle

\* combine_page_content(scraped_pages)
Combine ==
    /\ pc = "combine"
    /\ combined_content' =
           IF entry = "workflow" THEN CombinePageContentWS(scraped_pages)
           ELSE CombinePageContentST(scraped_pages, hash_seed)
    /\ pc' = "combined"
    /\ UNCHANGED <<entry, base_url, homepage_html, hash_seed, internal_links,
                   max_pages, scraped_pages, pages_scraped, link_index,
                   requests, calls, workflow_result, extracted_data,
                   scrape_jobs, filtered_emails, llm_reply, validation,
                   prompt, hookVars>>

\* create_enhanced_extraction_prompt(combined_content, template) and
\* ScraperAgent._build_extraction_prompt(content, base_url)
BuildPrompt ==
    /\ pc = "combined"
    /\ prompt' = PromptContent(entry, combined_content)
    /\ pc' = "prompted"
    /\ UNCHANGED <<entry, base_url, homepage_html, hash_seed, internal_links,
                   max_pages, scraped_pages, pages_scraped, link_index,
                   requests, calls, workflow_result, combined_content,
                   extracted_data, scrape_jobs, filtered_emails, llm_reply,
                   validation, hookVars>>

NextCombine == Combine \/ BuildPrompt

SpecCombine == InitCombine /\ [][NextCombine]_vars

\* the aggregate text returned
Aggregate == AggregateText(entry, combined_content)

\* the positions of the pieces of a text that are the token `name`
PiecesIn(text, name) == {i \in 1..Len(text) : text[i].s = <<name>>}

\* the positions of the section headers of a text
HeadersIn(text) == {i \in 1..Len(text) : Head(text[i].s) = "==="}

\* the pages fetched with success and the filtered emails of their markups
OkPages == {i \in 1..Len(scraped_pages) : scraped_pages[i].page.success}

FilteredUnion ==
    UNION {ExtractEmailsFromHtml(scraped_pages[i].page.html) : i \in OkPages}

\* the entries of the EXTRACTED_EMAILS line of a text, in the order of the
\* line
ListedIn(text) ==
    LET Listed(rest) == [i \in 1..Len(rest) |-> rest[i].s]
        After(m) ==
            Listed(SelectSeq(SubSeq(text, m + 1, Len(text)),
                       LAMBDA piece : piece.s \notin {<<", ">>, <<"NL">>}))
        At(marks) == IF marks = {} THEN <<>> ELSE After(CHOOSE m \in marks : TRUE)
    IN  At(PiecesIn(text, "EXTRACTED_EMAILS:"))

ListedEmails == ListedIn(Aggregate)

ScrapetestCombined == pc = "combined" /\ entry = "scrapetest"

EmailsLineOf(text, marks, headers, listed, union) ==
    /\ Cardinality(marks) = (IF union = {} THEN 0 ELSE 1)
    /\ \A m \in marks : \A h \in headers : h < m
    /\ Range(listed) = union
    /\ \A i \in 1..(Len(listed) - 1) : StrLess(listed[i], listed[i + 1])
    /\ \A h \in headers :
           \E i \in OkPages :
               text[h].s = <<"===", PageType(scraped_pages[i].key), "PAGE">>
                           \o scraped_pages[i].key
    /\ Cardinality(headers) <= Cardinality(OkPages)
    /\ (/\ Len(scraped_pages) = 1
        /\ OkPages = {1}
        /\ scraped_pages[1].page.html[1].anchors =
               << <<"mailto", ":", "info", "@", "acme", ".", "test">> >>)
       => listed = << <<"info", "@", "acme", ".", "test">> >>

EmailsLineIn(text) ==
    EmailsLineOf(text, PiecesIn(text, "EXTRACTED_EMAILS:"), HeadersIn(text),
                 ListedIn(text), FilteredUnion)

\* C22: the aggregate of scrapetest.combine_page_content has one
\* EXTRACTED_EMAILS line after its page sections exactly when the union of
\* the filtered emails of the fetched pages is non-empty; the line lists
\* that union sorted and without duplicates; a failed page has no section;
\* a lone homepage with mailto:info@acme.test gives the line
\* "EXTRACTED_EMAILS: info@acme.test"
C22_ExtractedEmailsLine == ScrapetestCombined => EmailsLineIn(Aggregate)

\* three pages, one of them failed, the other two with three filtered
\* emails between them and an excluded address, and the line lists the three
C22_Witness ==
    /\ ScrapetestCombined
    /\ Len(scraped_pages) = 3
    /\ Cardinality(OkPages) = 2
    /\ Len(ListedEmails) = 3
    /\ \E i \in OkPages :
           \E e \in CollectedEmails(scraped_pages[i].page.html[1]) :
               ~KeptEmail(e)

\* the hint lines the fetched pages give, repeats among them
FoundHints ==
    Flatten([i \in 1..Len(scraped_pages) |->
                IF scraped_pages[i].page.success
                THEN PageHints(scraped_pages[i].page) ELSE <<>>])

\* the positions of the hint lines of a text
HintLinesIn(text) ==
    {i \in 1..Len(text) :
         text[i].s \in { <<"LOCATION CONTEXT:">>,
                         <<"CRITICAL: Emails found in HTML:">> }}

HintBlockOf(hints, found, top, lines, below) ==
    /\ Len(hints) <= 5
    /\ \A i, j \in 1..Len(hints) : hints[i] = hints[j] => i = j
    /\ Range(hints) \subseteq Range(found)
    /\ Cardinality(lines) = Len(hints)
    /\ top = (IF found = <<>> THEN {} ELSE {1})
    /\ found = <<>> => lines = {}
    /\ \A h \in lines : \A t \in top : \A b \in below : t < h /\ h < b

HintBlockIn(text) ==
    HintBlockOf(combined_content.hints, FoundHints,
                PiecesIn(text, "SMART CONTACT DETECTION:"), HintLinesIn(text),
                HeadersIn(text) \cup PiecesIn(text, "EXTRACTED_EMAILS:"))

\* C23: the hint block of the aggregate of scrapetest.combine_page_content
\* holds at most 5 hint lines, no two of them equal, each of them found on
\* a fetched page; the block is at the top, before every page section and
\* before the EXTRACTED_EMAILS line, and it is absent when no hint was
\* found
C23_HintBlock == ScrapetestCombined => HintBlockIn(Aggregate)

\* more than 5 different hints found, one of them on two pages, and the
\* block holds 5 lines above a page section and the EXTRACTED_EMAILS line
C23_Witness ==
    /\ ScrapetestCombined
    /\ Cardinality(Range(FoundHints)) > 5
    /\ Len(FoundHints) > Cardinality(Range(FoundHints))
    /\ Len(combined_content.hints) = 5
    /\ HeadersIn(Aggregate) # {}
    /\ PiecesIn(Aggregate, "EXTRACTED_EMAILS:") # {}

\* text a is text b cut after its first Chars(a) characters
IsPrefix(a, b) ==
    /\ Len(a) <= Len(b)
    /\ \A i \in 1..Len(a) :
           /\ a[i].s = b[i].s
           /\ IF i < Len(a) THEN a[i].chars = b[i].chars
              ELSE a[i].chars <= b[i].chars /\ a[i].chars > 0

PrefixOfLength(content, text, n) ==
    /\ Chars(content) = n
    /\ Chars(content) <= PromptCap
    /\ IsPrefix(content, text)

PromptIsPrefix(content, text) ==
    PrefixOfLength(content, text,
                   IF Chars(text) < PromptCap THEN Chars(text) ELSE PromptCap)

\* C24: the website content embedded in the extraction prompt is the
\* prefix of the aggregate text of length min(len(aggregate), 20000), in
\* create_enhanced_extraction_prompt and in _build_extraction_prompt
C24_PromptContentIsPrefix ==
    pc = "prompted" => PromptIsPrefix(prompt, Aggregate)

---------------------------------------------------------------------------
(* Replies inside Markdown code fences.                                    *)

\* the reply is a JSON object, bare or behind an opening fence, whose
\* contact_info and social_proof are mappings when it holds them
ObjectReply ==
    /\ pc = "extracted"
    /\ llm_reply.kind = "reply"
    /\ llm_reply.json = "object"
    /\ ~(llm_reply.open = "" /\ llm_reply.close)
    /\ \A k \in {"contact_info", "social_proof"} :
           k \in DOMAIN llm_reply.value => llm_reply.value[k].isdict

\* the extractor returned the parsed reply: the dict itself in
\* ScraperAgent, the dict with its sections kept and the two enriched
\* sections in scrapetest
ReturnsParsed ==
    IF entry = "workflow" THEN extracted_data = DictData(llm_reply.value)
    ELSE /\ extracted_data.type = "dict"
         /\ \A sec \in DOMAIN llm_reply.value \ {"contact_info", "social_proof"} :
                /\ sec \in DOMAIN extracted_data.top
                /\ extracted_data.top[sec] = llm_reply.value[sec]

\* C25: for a reply that is a valid JSON object, wrapped in a code fence
\* (with or without the json tag, the closing fence there or missing) or
\* bare, both
\* extractors return the parsed JSON
C25_FenceStripped == ObjectReply => ReturnsParsed

---------------------------------------------------------------------------
(* The email the fallback enrichment chooses.                              *)

\* the regex-found emails of the aggregate, lower-cased, that hold no
\* exclusion term of the fallback, and those of them with a business prefix
RegexKept(content) ==
    { e \in { Lower(w) : w \in { x \in Range(ContentWords(content)) :
                                     EmailShaped(x) } } :
          \A t \in ExcludeTerms : ~Contains(e, t) }

WithBusinessPrefix(emails) ==
    { e \in emails :
          \E local \in {"info", "contact", "hello", "support", "sales"} :
              Contains(e, <<local, "@">>) }

EmailChosen(email, listed, kept, priority) ==
    IF listed # <<>> THEN email = listed[1]
    ELSE IF priority # {} THEN email \in priority
    ELSE IF kept # {} THEN email \in kept
    ELSE email = <<>>

\* the model's reply is a profile without an email
EmailLeftEmpty ==
    /\ GptReturnedProfile
    /\ ReplyValue(<<"contact_info", "email">>) = <<>>

\* C26: when the model left the email empty, extract_company_data_with_gpt
\* sets the first entry of the EXTRACTED_EMAILS line when the aggregate has
\* one; otherwise an email with a business prefix among the regex-found
\* emails without exclusion term when there is one, else one of those
\* emails, and no email when there is none
C26_FallbackEmailChoice ==
    EmailLeftEmpty =>
        EmailChosen(ProfileValue(<<"contact_info", "email">>),
                    ListedIn(AggregateTextST(combined_content)),
                    RegexKept(combined_content),
                    WithBusinessPrefix(RegexKept(combined_content)))

\* no EXTRACTED_EMAILS line, two emails with a business prefix and one
\* without among those found, and one with the prefix is set
C26_Witness ==
    /\ EmailLeftEmpty
    /\ combined_content.emails = {}
    /\ Cardinality(WithBusinessPrefix(RegexKept(combined_content))) = 2
    /\ RegexKept(combined_content)
           # WithBusinessPrefix(RegexKept(combined_content))
    /\ ProfileValue(<<"contact_info", "email">>)
           \in WithBusinessPrefix(RegexKept(combined_content))

---------------------------------------------------------------------------
(* handle_webhook applied to sequences of requests.                        *)

\* the most requests of a sequence
MaxWebhooks == 2

\* the values a field of data_collection_results holds: no 'value' key,
\* the empty string, and two answers
FieldValues == { None, Some(<<>>), Some(<<" ", "a", " ">>), Some(<<"b">>) }

\* the dynamic variables of a conversation: a user_id, a user_name, none
DynamicVariables ==
    { [user_id |-> <<"u1">>], [user_name |-> <<"ann">>], <<>> }

Conversations ==
    { [ conversation_id         |-> <<"conv", "-", "555", "010">>,
        dynamic_variables       |-> dv,
        data_collection_results |-> results ] :
          dv \in DynamicVariables,
          results \in [{"goal", "session_id"} -> FieldValues] }

\* how the insert into conversations and the upserts are answered
StoreAnswers ==
    { [insert |-> "stored",  upsert |-> "stored"],
      [insert |-> "stored",  upsert |-> "raises"],
      [insert |-> "no_data", upsert |-> "stored"],
      [insert |-> "raises",  upsert |-> "stored"] }

Webhooks ==
    { [type |-> t, data |-> c, store |-> a] :
          t \in {"post_call_transcription", "conversation_initiation"},
          c \in Conversations, a \in StoreAnswers }

InitWebhooks ==
    /\ entry = "webhook"
    /\ base_url = BaseHome
    /\ homepage_html = Html(<<>>, <<>>, <<>>, 0)
    /\ hash_seed = 0
    /\ internal_links = <<>>
    /\ pc = "serving"
    /\ max_pages = 0
    /\ filtered_emails = {}
    /\ JobIdle

\* handle_webhook() for one request
HandleWebhook ==
    /\ pc = "serving"
    /\ hook.seq < MaxWebhooks
    /\ \E w \in Webhooks :
        LET Answer(status) ==
                hook' = [seq |-> hook.seq + 1, request |-> w, status |-> status]
        IN  IF w.type # "post_call_transcription"
            THEN /\ Answer("ignored")
                 /\ UNCHANGED <<conversations, user_data_points>>
            ELSE IF w.store.insert = "raises"
            THEN /\ Answer("error")
                 /\ UNCHANGED <<conversations, user_data_points>>
            ELSE IF w.store.insert = "no_data"
            THEN /\ Answer("database_error")
                 /\ conversations' =
                        Append(conversations, [ user_id |-> GetUserId(w.data),
                                                outcome |-> "no_data" ])
                 /\ UNCHANGED user_data_points
            ELSE /\ Answer("success")
                 /\ conversations' =
                        Append(conversations, [ user_id |-> GetUserId(w.data),
                                                outcome |-> "stored" ])
                 /\ user_data_points' =
                        CleanupConversationData(user_data_points, w.data,
                                                w.store.upsert)
    /\ UNCHANGED <<entry, base_url, homepage_html, hash_seed, internal_links,
                   pc, jobVars, filtered_emails, llm_reply, validation>>

NextWebhooks == HandleWebhook

SpecWebhooks == InitWebhooks /\ [][NextWebhooks]_vars

\* the users and keys a row can be about
UserIds == { GetUserId(c) : c \in Conversations }
DataPointKeys == {"goal", "session_id"}

\* the values of the rows of a table for a user and a key
ValuesOf(rows, user, key) ==
    { rows[i].value : i \in { j \in 1..Len(rows) :
                                  /\ rows[j].user_id = user
                                  /\ rows[j].data_point_key = key } }

AtMostOneRow ==
    \A i, j \in 1..Len(user_data_points) :
        (/\ user_data_points[i].user_id = user_data_points[j].user_id
         /\ user_data_points[i].data_point_key
                = user_data_points[j].data_point_key) => i = j

\* the request is a post_call_transcription webhook of the user with a
\* non-empty value for the key, and the key is no meta field
Supplies(w, user, key) ==
    /\ w.type = "post_call_transcription"
    /\ GetUserId(w.data) = user
    /\ key \notin {"session_id", "correction_handling",
                   "information_completeness_tracker"}
    /\ w.data.data_collection_results[key] \notin {None, Some(<<>>)}

\* the conversation record of the request was stored and its upserts
\* were not refused
Stored(w) == w.store.insert = "stored" /\ w.store.upsert = "stored"

SuppliedValue(w, key) == StripSpace(w.data.data_collection_results[key][1])

\* C27 as claimed: every webhook that supplies a non-empty value for a key
\* leaves one row for (user_id, key) with the stripped value, and nothing
\* else creates or changes a row
WebhookSetsRow ==
    \A user \in UserIds, key \in DataPointKeys :
        IF Supplies(hook'.request, user, key)
        THEN ValuesOf(user_data_points', user, key)
                 = {SuppliedValue(hook'.request, key)}
        ELSE ValuesOf(user_data_points', user, key)
                 = ValuesOf(user_data_points, user, key)

StoredWebhookSetsRow ==
    \A user \in UserIds, key \in DataPointKeys :
        IF Supplies(hook'.request, user, key) /\ Stored(hook'.request)
        THEN ValuesOf(user_data_points', user, key)
                 = {SuppliedValue(hook'.request, key)}
        ELSE ValuesOf(user_data_points', user, key)
                 = ValuesOf(user_data_points, user, key)

---------------------------------------------------------------------------
(* A failing chat-completion call in ScrapeWorkflow.run, under Spec.       *)

CompletionRaised ==
    /\ Returned
    /\ entry = "workflow"
    /\ llm_reply.kind = "raises"

\* C28: when the chat-completion call raises, run does not abort: the
\* extractor's record holds extraction_failed = True and the error text,
\* validate_extraction returns False for it, _save_to_database is called
\* with it, and run returns status 'completed' with success = True and
\* extraction_valid = False
C28_CompletionFailureStillCompletes ==
    CompletionRaised =>
        /\ extracted_data.type = "dict"
        /\ DOMAIN extracted_data.top = {"error", "extraction_failed"}
        /\ extracted_data.top["extraction_failed"] = Scalar(<<"True">>)
        /\ extracted_data.top["error"].value # <<>>
        /\ ~validation.raised
        /\ ~validation.is_valid
        /\ CallCount("_save_to_database") = 1
        /\ \A i \in 1..Len(scrape_jobs) :
               scrape_jobs[i].row.extracted_data = extracted_data
        /\ workflow_result.status = "completed"
        /\ workflow_result.success
        /\ workflow_result.extraction_valid = Some(FALSE)
        /\ workflow_result.extracted_data = Some(extracted_data)

\* the call raised and the failure record was inserted and stored
C28_Witness ==
    /\ CompletionRaised
    /\ Len(scrape_jobs) = 1
    /\ scrape_jobs[1].outcome = "stored"
    /\ "extraction_failed" \in DOMAIN scrape_jobs[1].row.extracted_data.top
    /\ workflow_result.status = "completed"

---------------------------------------------------------------------------
(* The row _save_to_database hands to insert against the result of run,    *)
(* under Spec.                                                             *)

ResponseCodeKeys(row) ==
    {row.scraper_response_codes[i].key :
         i \in 1..Len(row.scraper_response_codes)}

RowDescribesResult(row, result) ==
    /\ row.id = JobId
    /\ result.extracted_data = Some(row.extracted_data)
    /\ result.pages_scraped # None
    /\ Range(row.pages_scraped) = Range(result.pages_scraped[1])
    /\ Range(row.pages_scraped) = ResponseCodeKeys(row)

\* C30: the row handed to persistence by ScrapeWorkflow.run describes the
\* job of the returned result: its id is the job's id, its extracted_data
\* is the result's extracted_data, and its pages_scraped names the page
\* keys of the result's pages_scraped and of its own scraper_response_codes
C30_RowDescribesResult ==
    (Returned /\ entry = "workflow") =>
        \A i \in 1..Len(scrape_jobs) :
            RowDescribesResult(scrape_jobs[i].row, workflow_result)

---------------------------------------------------------------------------
(* The profile extract_company_data_with_gpt returns for a reply that      *)
(* parses as a JSON object, under SpecExtract.                             *)

\* json.loads of the reply, after the fence slicing, gave a JSON object
ParsedAsObject ==
    /\ pc = "extracted"
    /\ entry = "scrapetest"
    /\ llm_reply.kind = "reply"
    /\ Loads(StripCodeFence(llm_reply)).json = "object"

\* the profile holds the section of the reply: a mapping with every
\* non-empty value the reply gave, any other value as it was given
HoldsSupplied(profile, supplied, sec) ==
    /\ sec \in DOMAIN profile
    /\ IF supplied[sec].isdict
       THEN /\ profile[sec].isdict
            /\ \A f \in DOMAIN supplied[sec].fields :
                   supplied[sec].fields[f] # <<>> =>
                       /\ f \in DOMAIN profile[sec].fields
                       /\ profile[sec].fields[f] = supplied[sec].fields[f]
       ELSE profile[sec] = supplied[sec]

\* C29: whenever the reply parses as a JSON object,
\* extract_company_data_with_gpt returns a profile, not None, that holds
\* every section and value the reply supplied, whatever the reply gave
\* for contact_info and social_proof (nothing, null, a string, a mapping)
C29_ObjectReplyGivesProfile ==
    ParsedAsObject =>
        /\ extracted_data.type = "dict"
        /\ \A sec \in DOMAIN llm_reply.value :
               HoldsSupplied(extracted_data.top, llm_reply.value, sec)

============================================================================
